---- MODULE Spec2Model ----
(***************************************************************************)
(* Webhook handlers of the LIMS repository, modelled as state machines.    *)
(* Each handler is sequential; its dialogs are inputs drawn with \E.       *)
(* The module holds several specifications over one set of variables:      *)
(*   Spec        experiment review life cycle (review.py, add samples,      *)
(*               cancelling) on one experiment                              *)
(*   SpecGrabber ProtocolGrabber.execute on one experiment                  *)
(*   SpecLaunch  LaunchTestAliquots: validation and conversion              *)
(*   SpecConvert AddTestAliquotsToExperiment: conversion of chosen aliquots *)
(*   SpecCopy    CopyAssayResults                                           *)
(*   SpecCreator TestAliquotCreator.prompt_user_with_aliquot_details        *)
(*   SpecCreatorRuns  the add-test-aliquot buttons, run after run           *)
(*   SpecHplc    EmpowerParser.parse on one uploaded file                   *)
(*   SpecElisa   ProcessElisaFile.execute on one uploaded file              *)
(* A specification leaves the variables of the other handlers at their     *)
(* idle values.                                                             *)
(***************************************************************************)
EXTENDS Integers, Sequences, FiniteSets, TLC

VARIABLES
    \* ---- the experiment (ELNExperiment record and notebook experiment)
    experimentStatus,     \* ElnExperimentStatus of the notebook experiment
    reviewStatus,         \* ELNExperiment.REVIEW_STATUS, None when unset
    experimentOptions,    \* experiment option map: option name -> value
    overviewHidden,       \* is_hidden of the experiment overview entry
    reasonForCancelling,  \* ELNExperiment.REASON_FOR_CANCELLING
    sampleRecords,        \* number of Sample records stored in the system
    entryRecords,         \* record ids attached to the samples entry
    hasStudy,             \* the experiment has a parent Study record
    studyChildren,        \* samples that are children of the parent study
    cancelPc,             \* CancellingExperiment: "idle" or "prompt"
    lockRan,              \* MarkReadyForReview or CancellingExperiment has
                          \* completed since the last UnlockExperiment
    \* ---- ProtocolGrabber: the experiment it runs on
    experimentTabs,       \* tabs of the experiment, in tab order
    experimentEntries,    \* entries of the experiment, in step order
    processSteps,         \* committed C_ProcessStep records (their titles)
    grabberContext,       \* what CustomGrabberContextBuilder was given
    \* ---- Sample and C_TestAliquot record models, and the handlers on them
    samples,              \* Sample records, by record id
    testAliquots,         \* C_TestAliquot records, by record id
    selection,            \* record ids of the test aliquots handed in
    validAliquots,        \* what identify_samples returned
    sampleAliquots,       \* what convert_test_aliquots_to_samples returned
    samplesStep,          \* record ids in the experiment's "Samples" entry
    committed,            \* store_and_commit has stored the record models
    launchPc,             \* LaunchTestAliquots: the call it is about to make
    \* ---- CopyAssayResults: the experiment it runs on
    sampleDetails,        \* sample details of the assay results entry
    passFail,             \* PASS_FAIL of the assay details entry
    templateDesignation,  \* designation of the experiment's template
    copyPc,               \* CopyAssayResults: "idle", "done" or "raised"
    \* ---- TestAliquotCreator and the buttons that call it
    creatorSample,        \* record id of the sample the button is on
    overrideFields,       \* override_fields given to the prompt
    defaultValues,        \* default_values: one row per aliquot to create
    hardCodedValues,      \* hard_coded_values_per_sample
    resultValues,         \* result_values: rows of the table dialog
    errorMsg,             \* error_msg shown by the table dialog
    creatorPc,            \* the button: the call it is about to make
    \* ---- EmpowerParser: the uploaded file and the HPLC experiment
    fileRows,             \* row_maps: the tokenized rows of the file
    hplcGroups,           \* the four lists parse sorts the rows into
    rawDataEntries,       \* experiment details of the three raw entries
    rawSampleDetails,     \* sample details of the "Raw Sample Data" entry
    slopeIntercept,       \* the record of the "Slope / Intercept" entry
    referenceStandardData,\* rows of the "Reference Standard Data" entry
    assayControlData,     \* rows of the "Assay Control Data" entry
    sampleData,           \* sample details of the "Sample Data" entry
    hplcPc,               \* EmpowerParser.parse: the call it is about to make
    \* ---- ProcessElisaFile: the uploaded file and the ELISA experiment
    allRows,              \* all_rows: the table rows of the data blocks
    dilutedSampleSources, \* diluted samples of the plate, by well position
    originalSampleSources,\* Sample IDs of the samples in the "Samples" entry
    elisaSampleData,      \* sample details of the "Sample Data" entry
    elisaAverages,        \* details of "Sample Data Averages", by Sample ID
    elisaPc,              \* ProcessElisaFile: the call it is about to make
    \* ---- every handler
    lastResult,           \* what the last handler run returned or raised
    dialogs               \* the dialogs that run showed, with the answers

reviewVars == <<experimentStatus, reviewStatus, experimentOptions,
                overviewHidden, reasonForCancelling, sampleRecords,
                entryRecords, hasStudy, studyChildren, cancelPc,
                lockRan>>

grabberVars == <<experimentTabs, experimentEntries, processSteps,
                 grabberContext>>

copyVars == <<sampleDetails, passFail, templateDesignation, copyPc>>

creatorVars == <<creatorSample, overrideFields, defaultValues,
                 hardCodedValues, resultValues, errorMsg, creatorPc>>

recordVars == <<samples, testAliquots, selection, validAliquots,
                sampleAliquots, samplesStep, committed, launchPc,
                copyVars, creatorVars>>

hplcVars == <<fileRows, hplcGroups, rawDataEntries, rawSampleDetails,
              slopeIntercept, referenceStandardData, assayControlData,
              sampleData, hplcPc>>

elisaVars == <<allRows, dilutedSampleSources, originalSampleSources,
               elisaSampleData, elisaAverages, elisaPc>>

parserVars == <<hplcVars, elisaVars>>

nonReviewVars == <<grabberVars, recordVars, parserVars>>

nonGrabberVars == <<reviewVars, recordVars, parserVars>>

nonRecordVars == <<reviewVars, grabberVars, parserVars>>

nonParserVars == <<reviewVars, grabberVars, recordVars>>

vars == <<reviewVars, nonReviewVars, lastResult, dialogs>>

None == "None"

(***************************************************************************)
(* Results of a webhook: SapioWebhookResult(passed, message) or a raised   *)
(* exception.                                                               *)
(***************************************************************************)
WebhookResult(handler, passed, message) ==
    [handler |-> handler, passed |-> passed, message |-> message,
     exception |-> None]

Raised(handler, exc) ==
    [handler |-> handler, passed |-> FALSE, message |-> "",
     exception |-> exc]

NoResult == WebhookResult(None, FALSE, "")

Dialog(kind, title, answer) ==
    [kind |-> kind, title |-> title, answer |-> answer]

(***************************************************************************)
(* sapio/enum/pick_list.py                                                  *)
(***************************************************************************)
READY_FOR_REVIEW == "Ready for Review"
IN_REVIEW == "In Review"
APPROVED == "Approved"
REJECTED == "Rejected"
OPEN == "Open"
CANCELLED == "Cancelled"

ReviewStatuses == {READY_FOR_REVIEW, IN_REVIEW, APPROVED, REJECTED, OPEN}

\* The values the Review Status field can hold: unset, a pick-list value,
\* or the literal CancellingExperiment writes.
ReviewStatusValues == {None} \cup ReviewStatuses \cup {CANCELLED}

HIDE_COMPLETE_WORKFLOW_BUTTON == "HIDE COMPLETE WORKFLOW BUTTON"
OTHER_OPTION == "OTHER OPTION"

\* dict.update({key: value}) on an option map
DictUpdate(map, key, value) ==
    [k \in (DOMAIN map) \cup {key} |-> IF k = key THEN value ELSE map[k]]

EmptyMap == [k \in {} |-> ""]

(***************************************************************************)
(* Bounds of the review model.                                             *)
(***************************************************************************)
MaxSamples == 3
MaxCreate == 2

SampleIds == 1..sampleRecords

(***************************************************************************)
(* MarkReadyForReview.execute (review.py 27-48)                             *)
(***************************************************************************)
MarkReadyForReview ==
    /\ cancelPc = "idle"
    /\ experimentStatus' = "New"
    /\ overviewHidden' = FALSE
    /\ reviewStatus' = READY_FOR_REVIEW
    /\ experimentOptions' =
           DictUpdate(experimentOptions, HIDE_COMPLETE_WORKFLOW_BUTTON, "")
    /\ lockRan' = TRUE
    /\ lastResult' = WebhookResult("MarkReadyForReview", TRUE, "")
    /\ dialogs' = <<>>
    /\ UNCHANGED <<reasonForCancelling, sampleRecords, entryRecords,
                   hasStudy, studyChildren, cancelPc, nonReviewVars>>

(***************************************************************************)
(* UnlockExperiment.execute (review.py 60-76)                               *)
(***************************************************************************)
\* line 68
UnlockReviewStatus == OPEN

UnlockExperiment ==
    /\ cancelPc = "idle"
    /\ experimentStatus' = "New"
    /\ reviewStatus' = UnlockReviewStatus
    /\ experimentOptions' = EmptyMap
    /\ lockRan' = FALSE
    /\ lastResult' = WebhookResult("UnlockExperiment", TRUE, "")
    /\ dialogs' = <<>>
    /\ UNCHANGED <<overviewHidden, reasonForCancelling, sampleRecords,
                   entryRecords, hasStudy, studyChildren, cancelPc,
                   nonReviewVars>>

(***************************************************************************)
(* ShowCompleteExperimentButton.execute (review.py 97-101)                  *)
(***************************************************************************)
ShowCompleteExperimentButton ==
    /\ cancelPc = "idle"
    /\ experimentOptions' = EmptyMap
    /\ lastResult' = WebhookResult("ShowCompleteExperimentButton", TRUE, "")
    /\ dialogs' = <<>>
    /\ UNCHANGED <<experimentStatus, reviewStatus, overviewHidden,
                   reasonForCancelling, sampleRecords, entryRecords,
                   hasStudy, studyChildren, cancelPc, lockRan,
                   nonReviewVars>>

(***************************************************************************)
(* CompleteApprovedExperiment.execute (review.py 110-129)                   *)
(***************************************************************************)
ReviewNotDecidedLoose(status) ==
    status # APPROVED /\ status # REJECTED /\ status # IN_REVIEW

\* line 117: the review status is neither Approved nor Rejected
ReviewNotDecided(status) == status # APPROVED /\ status # REJECTED

NOT_DECIDED_MESSAGE ==
    "Unable to complete Review, experiment had been neither accepted nor rejected."

COMPLETE_DIALOG_TITLE == "The experiment will be marked as completed and locked."

CompleteApprovedExperiment ==
    /\ cancelPc = "idle"
    /\ \/ /\ ReviewNotDecided(reviewStatus)
          /\ lastResult' = WebhookResult("CompleteApprovedExperiment", FALSE,
                                         NOT_DECIDED_MESSAGE)
          /\ dialogs' = <<>>
          /\ UNCHANGED experimentStatus
       \/ /\ ~ReviewNotDecided(reviewStatus)
          /\ \E user_chose_to_proceed \in BOOLEAN :
               /\ dialogs' = <<Dialog("yes_no", COMPLETE_DIALOG_TITLE,
                                      user_chose_to_proceed)>>
               /\ IF ~user_chose_to_proceed
                  THEN /\ lastResult' = Raised("CompleteApprovedExperiment",
                                               "SapioUserCancelledException")
                       /\ UNCHANGED experimentStatus
                  ELSE /\ experimentStatus' = "Completed"
                       /\ lastResult' =
                            WebhookResult("CompleteApprovedExperiment", TRUE, "")
    /\ UNCHANGED <<reviewStatus, experimentOptions, overviewHidden,
                   reasonForCancelling, sampleRecords, entryRecords,
                   hasStudy, studyChildren, cancelPc, lockRan,
                   nonReviewVars>>

(***************************************************************************)
(* CustomAddSamplesButton.execute (add_samples_button.py 54-126)            *)
(***************************************************************************)
ADD_EXISTING == "Add Existing"
CREATE_NEW == "Create New"
NOT_OPEN_MESSAGE ==
    "Samples cannot be added to an experiment that is not in an Open status!"
ADD_DIALOG_TITLE == "Add Samples to Experiment"

AddBlockedOnlyReady(status) == status = READY_FOR_REVIEW

\* line 61: `if status and status != ReviewStatuses.OPEN`
AddBlocked(status) == status # None /\ status # OPEN

\* ExperimentHandler.add_step_records: attach the records to the entry
AddStepRecords(records) == entryRecords' = entryRecords \cup records

CustomAddSamplesButton ==
    /\ cancelPc = "idle"
    /\ \/ /\ AddBlocked(reviewStatus)
          /\ lastResult' = WebhookResult("CustomAddSamplesButton", FALSE,
                                         NOT_OPEN_MESSAGE)
          /\ dialogs' = <<>>
          /\ UNCHANGED <<sampleRecords, entryRecords, studyChildren>>
       \/ /\ ~AddBlocked(reviewStatus)
          /\ \/ \* the user closes the option dialog (user_can_cancel=True)
                /\ dialogs' = <<Dialog("option", ADD_DIALOG_TITLE, "cancel")>>
                /\ lastResult' = Raised("CustomAddSamplesButton",
                                        "SapioUserCancelledException")
                /\ UNCHANGED <<sampleRecords, entryRecords, studyChildren>>
             \/ \* prompt_for_existing_samples
                /\ \E samples_to_add \in (SUBSET SampleIds) \ {{}} :
                     /\ dialogs' = <<Dialog("option", ADD_DIALOG_TITLE,
                                            ADD_EXISTING)>>
                     /\ AddStepRecords(samples_to_add)
                     /\ lastResult' = WebhookResult("CustomAddSamplesButton",
                                                    TRUE, "Success!")
                     /\ UNCHANGED <<sampleRecords, studyChildren>>
             \/ \* prompt_for_create_new, then store_and_commit
                /\ \E num_to_create \in 1..MaxCreate :
                     /\ sampleRecords + num_to_create <= MaxSamples
                     /\ LET created == (sampleRecords + 1) ..
                                       (sampleRecords + num_to_create)
                        IN /\ sampleRecords' = sampleRecords + num_to_create
                           /\ studyChildren' =
                                IF hasStudy THEN studyChildren \cup created
                                            ELSE studyChildren
                           /\ AddStepRecords(created)
                     /\ dialogs' = <<Dialog("option", ADD_DIALOG_TITLE,
                                            CREATE_NEW)>>
                     /\ lastResult' = WebhookResult("CustomAddSamplesButton",
                                                    TRUE, "Success!")
    /\ UNCHANGED <<experimentStatus, reviewStatus, experimentOptions,
                   overviewHidden, reasonForCancelling, hasStudy, cancelPc,
                   lockRan, nonReviewVars>>

(***************************************************************************)
(* CancellingExperiment.execute                                             *)
(* (enforce_reason_for_cancelling_experiment.py 14-37).  The handler loops *)
(* on the reason dialog; each showing of the dialog is one step.            *)
(***************************************************************************)
CANCEL_DIALOG_TITLE == "Cancelling Experiment"
Reasons == {"", "reason A", "reason B"}

\* lines 16-17: user_input = "", the loop is entered
CancellingExperimentBegin ==
    /\ cancelPc = "idle"
    /\ cancelPc' = "prompt"
    /\ dialogs' = <<>>
    /\ lastResult' = WebhookResult("CancellingExperiment", FALSE, "running")
    /\ UNCHANGED <<experimentStatus, reviewStatus, experimentOptions,
                   overviewHidden, reasonForCancelling, sampleRecords,
                   entryRecords, hasStudy, studyChildren, lockRan,
                   nonReviewVars>>

\* lines 18-28, the user dismisses the dialog: SapioUserCancelledException
\* is caught and the loop continues
CancellingExperimentDismissed ==
    /\ cancelPc = "prompt"
    /\ dialogs' = <<Dialog("string_input", CANCEL_DIALOG_TITLE, "cancel")>>
    /\ UNCHANGED <<reviewVars, nonReviewVars, lastResult>>

ReasonMissingNever(user_input) == FALSE

\* line 18: len(user_input) < 1
ReasonMissing(user_input) == user_input = ""

\* lines 18-37, the user submits the dialog
CancellingExperimentInput ==
    /\ cancelPc = "prompt"
    /\ \E user_input \in Reasons :
         /\ dialogs' = <<Dialog("string_input", CANCEL_DIALOG_TITLE,
                                user_input)>>
         /\ IF ReasonMissing(user_input)
            THEN UNCHANGED <<reasonForCancelling, reviewStatus, cancelPc,
                             lockRan, lastResult>>
            ELSE /\ reasonForCancelling' = user_input
                 /\ reviewStatus' = CANCELLED
                 /\ cancelPc' = "idle"
                 /\ lockRan' = TRUE
                 /\ lastResult' = WebhookResult("CancellingExperiment", TRUE,
                                                "Success!")
    /\ UNCHANGED <<experimentStatus, experimentOptions, overviewHidden,
                   sampleRecords, entryRecords, hasStudy, studyChildren,
                   nonReviewVars>>

(***************************************************************************)
(* One experiment, in any state the review workflow can leave it in: the   *)
(* Review Status field is also edited by reviewers on the overview entry.  *)
(***************************************************************************)
ReviewIdle ==
    /\ experimentStatus = "New"
    /\ reviewStatus = None
    /\ experimentOptions = EmptyMap
    /\ overviewHidden = TRUE
    /\ reasonForCancelling = ""
    /\ sampleRecords = 0
    /\ entryRecords = {}
    /\ hasStudy = FALSE
    /\ studyChildren = {}
    /\ cancelPc = "idle"
    /\ lockRan = FALSE

GrabberIdle ==
    /\ experimentTabs = <<>>
    /\ experimentEntries = <<>>
    /\ processSteps = <<>>
    /\ grabberContext = [stage |-> None]

CopyIdle ==
    /\ sampleDetails = <<>>
    /\ passFail = None
    /\ templateDesignation = None
    /\ copyPc = "idle"

CreatorIdle ==
    /\ creatorSample = 0
    /\ overrideFields = EmptyMap
    /\ defaultValues = <<>>
    /\ hardCodedValues = <<>>
    /\ resultValues = <<>>
    /\ errorMsg = None
    /\ creatorPc = "idle"

\* A rational number num/den as <<num, den>>; no value (None) as <<0, 0>>.
NoValue == <<0, 0>>

HplcIdle ==
    /\ fileRows = <<>>
    /\ hplcGroups = [assay_control_data |-> <<>>,
                     reference_standards_data |-> <<>>,
                     raw_standard_curve_data |-> <<>>,
                     raw_sample_data |-> <<>>]
    /\ rawDataEntries = [reference_standards |-> <<>>,
                         raw_standards |-> <<>>,
                         assay_controls |-> <<>>]
    /\ rawSampleDetails = <<>>
    /\ slopeIntercept = [SLOPE |-> NoValue, INTERCEPT |-> NoValue,
                         R2 |-> NoValue, SPEC |-> None]
    /\ referenceStandardData = <<>>
    /\ assayControlData = <<>>
    /\ sampleData = <<>>
    /\ hplcPc = "idle"

ElisaIdle ==
    /\ allRows = <<>>
    /\ dilutedSampleSources = EmptyMap
    /\ originalSampleSources = {}
    /\ elisaSampleData = <<>>
    /\ elisaAverages = EmptyMap
    /\ elisaPc = "idle"

ParserIdle == HplcIdle /\ ElisaIdle

RecordsIdle ==
    /\ CopyIdle
    /\ CreatorIdle
    /\ samples = <<>>
    /\ testAliquots = <<>>
    /\ selection = <<>>
    /\ validAliquots = <<>>
    /\ sampleAliquots = <<>>
    /\ samplesStep = <<>>
    /\ committed = FALSE
    /\ launchPc = "idle"

Init ==
    /\ ParserIdle
    /\ GrabberIdle
    /\ RecordsIdle
    /\ experimentStatus \in {"New", "Completed"}
    /\ reviewStatus \in ReviewStatusValues
    /\ experimentOptions \in {EmptyMap, [k \in {OTHER_OPTION} |-> "x"]}
    /\ overviewHidden = TRUE
    /\ reasonForCancelling = ""
    /\ sampleRecords = 0
    /\ entryRecords = {}
    /\ hasStudy \in BOOLEAN
    /\ studyChildren = {}
    /\ cancelPc = "idle"
    /\ lockRan = FALSE
    /\ lastResult = NoResult
    /\ dialogs = <<>>

Next ==
    \/ MarkReadyForReview
    \/ UnlockExperiment
    \/ ShowCompleteExperimentButton
    \/ CompleteApprovedExperiment
    \/ CustomAddSamplesButton
    \/ CancellingExperimentBegin
    \/ CancellingExperimentDismissed
    \/ CancellingExperimentInput

Spec == Init /\ [][Next]_vars

(***************************************************************************)
(* ProtocolGrabber (grabber.py).  Text is a sequence of characters, so     *)
(* that lower-casing and substring search are computed as Python does.     *)
(***************************************************************************)
UpperCaseLetters ==
    <<"A","B","C","D","E","F","G","H","I","J","K","L","M","N","O","P","Q",
      "R","S","T","U","V","W","X","Y","Z">>

LowerCaseLetters ==
    <<"a","b","c","d","e","f","g","h","i","j","k","l","m","n","o","p","q",
      "r","s","t","u","v","w","x","y","z">>

\* str.lower() on one character
LowerChar(c) ==
    IF \E i \in DOMAIN UpperCaseLetters : UpperCaseLetters[i] = c
    THEN LowerCaseLetters[CHOOSE i \in DOMAIN UpperCaseLetters :
                              UpperCaseLetters[i] = c]
    ELSE c

\* str.lower()
LowerStr(text) == [i \in DOMAIN text |-> LowerChar(text[i])]

\* Python `needle in hay` on strings
Contains(needle, hay) ==
    \E i \in 1..(Len(hay) - Len(needle) + 1) :
        SubSeq(hay, i, i + Len(needle) - 1) = needle

\* tags.py 63: ProtocolTemplateTags.BUILDING_BLOCK_SAMPLE_LIMIT
BUILDING_BLOCK_SAMPLE_LIMIT ==
    <<"T","A","K","E","D","A"," ","B","U","I","L","D","I","N","G"," ","B",
      "L","O","C","K"," ","R","E","S","T","R","I","C","T"," ","T","O"," ",
      "O","N","E"," ","S","A","M","P","L","E">>

\* Descriptions of the protocol templates configured in the system.
UniversalTag ==
    <<"T","A","K","E","D","A"," ","B","U","I","L","D","I","N","G"," ","B",
      "L","O","C","K",":"," ","U","n","i","v","e","r","s","a","l"," ">>

MixedCaseLimitTag ==
    <<"T","a","k","e","d","a"," ","B","u","i","l","d","i","n","g"," ","B",
      "l","o","c","k"," ","r","e","s","t","r","i","c","t"," ","t","o"," ",
      "o","n","e"," ","s","a","m","p","l","e">>

TruncatedLimitTag ==
    <<"T","A","K","E","D","A"," ","B","U","I","L","D","I","N","G"," ","B",
      "L","O","C","K"," ","R","E","S","T","R","I","C","T"," ","T","O"," ",
      "O","N","E">>

SAMPLE_TYPE == "Sample"
SAMPLE_DETAIL_TYPE == "ELNSampleDetail_1"
EXPERIMENT_DETAIL_TYPE == "ELNExperimentDetail_1"

\* An entry of a protocol template: its data type and the entry of the same
\* template (0: none) it already depends on.
TemplateEntry(data_type_name, depends_on) ==
    [data_type_name |-> data_type_name, depends_on |-> depends_on]

\* ProtocolTemplateInfo of the public protocol templates
ProtocolTemplates ==
    { [template_id |-> 1,
       description |-> UniversalTag,
       entries |-> <<TemplateEntry(SAMPLE_DETAIL_TYPE, 0)>>],
      [template_id |-> 2,
       description |-> UniversalTag \o BUILDING_BLOCK_SAMPLE_LIMIT,
       entries |-> <<TemplateEntry(SAMPLE_DETAIL_TYPE, 0),
                     TemplateEntry(EXPERIMENT_DETAIL_TYPE, 0)>>],
      [template_id |-> 3,
       description |-> UniversalTag \o MixedCaseLimitTag,
       entries |-> <<TemplateEntry(EXPERIMENT_DETAIL_TYPE, 0),
                     TemplateEntry(SAMPLE_DETAIL_TYPE, 1)>>],
      [template_id |-> 4,
       description |-> UniversalTag \o TruncatedLimitTag,
       entries |-> <<TemplateEntry(SAMPLE_TYPE, 0)>>] }

Titles == {"Phase 1", "Phase 2"}

\* Bounds of the grabber model.
MaxEntries == 3
MaxTableSamples == 2

HasSampleLimitTagCaseSensitive(protocol) ==
    Contains(BUILDING_BLOCK_SAMPLE_LIMIT, protocol.description)

\* grabber.py 787
HasSampleLimitTag(protocol) ==
    Contains(LowerStr(BUILDING_BLOCK_SAMPLE_LIMIT),
             LowerStr(protocol.description))

\* grabber.py 768-799, the value returned.  sample_entry is an entry id, 0
\* for None; samples is then None, else the entry's records.
EnforceSampleCountLimit(protocol, sample_entry, sample_count) ==
    ~(/\ HasSampleLimitTag(protocol)
      /\ sample_entry # 0 /\ sample_count > 0
      /\ sample_count > 1)

\* grabber.py 420-440: the last samples table at or before max_position
GetMostRecentSamplesTable(existing_steps, max_position) ==
    LET found == {i \in 1..Len(existing_steps) :
                     /\ i <= max_position
                     /\ existing_steps[i].data_type_name = SAMPLE_TYPE}
    IN IF found = {} THEN 0
       ELSE existing_steps[CHOOSE i \in found : \A j \in found : j <= i]
                .entry_id

\* grabber.py 483-492: the number of samples in the entry (0 stands for
\* None as well; the entry id tells them apart)
GetSamples(existing_steps, sample_entry) ==
    IF sample_entry = 0 THEN 0 ELSE existing_steps[sample_entry].records

\* grabber.py 316-339: the tab name is the title, numbered when a tab of
\* that title exists: [title, n] stands for "title (n)", n = 1 for "title"
GetTabName(title, tabs) ==
    LET same == {i \in 1..Len(tabs) : tabs[i].title = title}
    IN IF same = {} THEN [title |-> title, n |-> 1]
       ELSE [title |-> title,
             n |-> tabs[CHOOSE i \in same : \A j \in same : j <= i].n + 1]

\* ElnManager.add_protocol_template: the template's entries, with new entry
\* ids, dependencies inside the template kept
AddProtocolTemplate(existing_steps, protocol, tab) ==
    [k \in 1..Len(protocol.entries) |->
        [entry_id |-> Len(existing_steps) + k,
         data_type_name |-> protocol.entries[k].data_type_name,
         dependency_set |->
            IF protocol.entries[k].depends_on = 0 THEN {}
            ELSE {Len(existing_steps) + protocol.entries[k].depends_on},
         related_entry_set |-> {},
         entry_status |-> "Enabled",
         records |-> 0,
         tab |-> tab]]

IsSampleDetail(entry) == entry.data_type_name = SAMPLE_DETAIL_TYPE

\* grabber.py 380-418: what update_step is asked to change (names and
\* options are not part of the model); the mutation relinks every sample
\* detail entry
UpdateEntryAlwaysRelinks(entry, sample_entry) ==
    IF IsSampleDetail(entry) /\ sample_entry # 0
    THEN [entry EXCEPT !.dependency_set = {sample_entry},
                       !.related_entry_set = {sample_entry},
                       !.entry_status = "Disabled"]
    ELSE entry

UpdateEntry(entry, sample_entry) ==
    IF IsSampleDetail(entry) /\ sample_entry # 0
    THEN IF entry.dependency_set = {}
         THEN [entry EXCEPT !.dependency_set = {sample_entry},
                            !.related_entry_set = {sample_entry},
                            !.entry_status = "Disabled"]
         ELSE [entry EXCEPT !.entry_status = "Disabled"]
    ELSE entry

\* grabber.py 494-505: a created sample detail entry that depends on the
\* samples entry; with no samples entry sample_entry.get_id() fails
SampleDetailLookupFails(created, sample_entry) ==
    /\ sample_entry = 0
    /\ \E k \in 1..Len(created) :
          IsSampleDetail(created[k]) /\ created[k].dependency_set # {}

\* grabber.py 442-481: one sample detail per source sample in each sample
\* detail entry that depends on the samples entry
PopulateSampleDetailTables(created, sample_entry, sample_count) ==
    [k \in 1..Len(created) |->
        IF /\ IsSampleDetail(created[k])
           /\ sample_entry \in created[k].dependency_set
        THEN [created[k] EXCEPT !.records = sample_count]
        ELSE created[k]]

SAMPLE_LIMIT_DIALOG == "Error"

\* grabber.py 167-237.  Inputs: the protocol picked in the list dialog (or
\* none), how the title prompts ended, where the webhook was invoked from.
ProtocolGrabberExecute ==
    \E choice \in ProtocolTemplates \cup {[template_id |-> 0]},
       title \in Titles \cup {"cancelled", "missing"},
       invocation \in {"toolbar", "grabber", "other"},
       entry_position \in 1..Len(experimentEntries) :
    LET H == "ProtocolGrabber"
        max_position == IF invocation = "toolbar"
                        THEN Len(experimentEntries) ELSE entry_position
        sample_entry == GetMostRecentSamplesTable(experimentEntries,
                                                  max_position)
        sample_count == GetSamples(experimentEntries, sample_entry)
        new_tab == GetTabName(title, experimentTabs)
        tab_id == IF invocation = "toolbar" THEN Len(experimentTabs) + 1
                  ELSE experimentEntries[entry_position].tab
        created == AddProtocolTemplate(experimentEntries, choice, tab_id)
        updated == [k \in 1..Len(created) |->
                        UpdateEntry(created[k], sample_entry)]
        filled == PopulateSampleDetailTables(updated, sample_entry,
                                             sample_count)
    IN
    /\ \A p \in ProtocolTemplates :
          Len(experimentEntries) + Len(p.entries) <= MaxEntries
    /\ IF choice.template_id = 0
       THEN \* prompt_for_protocol: nothing chosen
            /\ lastResult' = Raised(H, "SapioUserCancelledException")
            /\ grabberContext' = [stage |-> "start"]
            /\ dialogs' = <<Dialog("list", "protocol", "cancel")>>
            /\ UNCHANGED <<experimentTabs, experimentEntries, processSteps>>
       ELSE IF title \notin Titles
       THEN \* get_title: a prompt was cancelled, or no title tag at all
            /\ lastResult' =
                 Raised(H, IF title = "cancelled"
                           THEN "SapioUserCancelledException"
                           ELSE "SapioUserErrorException")
            /\ grabberContext' = [stage |-> "protocol",
                                  protocol |-> choice.template_id]
            /\ dialogs' = <<Dialog("list", "protocol", choice.template_id)>>
            /\ UNCHANGED <<experimentTabs, experimentEntries, processSteps>>
       ELSE IF invocation = "other"
       THEN \* get_current_position: configured incorrectly
            /\ lastResult' = Raised(H, "SapioUserErrorException")
            /\ grabberContext' = [stage |-> "title",
                                  protocol |-> choice.template_id,
                                  title |-> title]
            /\ dialogs' = <<Dialog("list", "protocol", choice.template_id)>>
            /\ UNCHANGED <<experimentTabs, experimentEntries, processSteps>>
       ELSE IF ~EnforceSampleCountLimit(choice, sample_entry, sample_count)
       THEN \* lines 198-200
            /\ lastResult' = WebhookResult(H, FALSE, "")
            /\ grabberContext' = [stage |-> "source_samples",
                                  protocol |-> choice.template_id,
                                  title |-> title,
                                  sample_step |-> sample_entry,
                                  source_samples |-> sample_count]
            /\ dialogs' = <<Dialog("list", "protocol", choice.template_id),
                            Dialog("ok", SAMPLE_LIMIT_DIALOG, "ok")>>
            /\ UNCHANGED <<experimentTabs, experimentEntries, processSteps>>
       ELSE \* lines 202-237
            /\ dialogs' = <<Dialog("list", "protocol", choice.template_id)>>
            /\ experimentTabs' = IF invocation = "toolbar"
                                 THEN Append(experimentTabs, new_tab)
                                 ELSE experimentTabs
            /\ IF SampleDetailLookupFails(updated, sample_entry)
               THEN /\ experimentEntries' = experimentEntries \o updated
                    /\ lastResult' = Raised(H, "AttributeError")
                    /\ grabberContext' = [stage |-> "created_entries",
                                          protocol |-> choice.template_id,
                                          title |-> title,
                                          sample_step |-> sample_entry,
                                          source_samples |-> sample_count]
                    /\ UNCHANGED processSteps
               ELSE /\ experimentEntries' = experimentEntries \o filled
                    /\ processSteps' = Append(processSteps, title)
                    /\ lastResult' = WebhookResult(H, TRUE, "Success!")
                    /\ grabberContext' = [stage |-> "built",
                                          protocol |-> choice.template_id,
                                          title |-> title,
                                          sample_step |-> sample_entry,
                                          source_samples |-> sample_count]
    /\ UNCHANGED nonGrabberVars

\* The user edits the samples table of the experiment between runs.
UserEditsSamplesTable ==
    \E e \in 1..Len(experimentEntries), n \in 0..MaxTableSamples :
        /\ experimentEntries[e].data_type_name = SAMPLE_TYPE
        /\ experimentEntries[e].records # n
        /\ experimentEntries' =
              [experimentEntries EXCEPT ![e].records = n]
        /\ UNCHANGED <<experimentTabs, processSteps, grabberContext,
                       lastResult, dialogs, nonGrabberVars>>

\* An experiment with one tab and one entry: a samples table or not.
InitGrabber ==
    /\ ParserIdle
    /\ ReviewIdle
    /\ RecordsIdle
    /\ experimentTabs = <<[title |-> "Experiment", n |-> 1]>>
    /\ \E t \in {SAMPLE_TYPE, EXPERIMENT_DETAIL_TYPE} :
          experimentEntries =
              <<[entry_id |-> 1, data_type_name |-> t,
                 dependency_set |-> {}, related_entry_set |-> {},
                 entry_status |-> "Enabled", records |-> 0, tab |-> 1]>>
    /\ processSteps = <<>>
    /\ grabberContext = [stage |-> None]
    /\ lastResult = NoResult
    /\ dialogs = <<>>

NextGrabber == ProtocolGrabberExecute \/ UserEditsSamplesTable

SpecGrabber == InitGrabber /\ [][NextGrabber]_vars

(***************************************************************************)
(* Properties of the review life cycle (checked under Spec).               *)
(***************************************************************************)

\* C2: a CompleteApprovedExperiment run passes, and sets the experiment
\* status to Completed, only if the Review Status is Approved or Rejected
\* and the user answered yes to the confirmation dialog; with any other
\* review status it returns the failed result, when the user declines it
\* raises SapioUserCancelledException, and in both of these cases the
\* experiment status is unchanged.
C2_CompleteOnlyWhenDecidedAndConfirmed ==
    [][lastResult'.handler = "CompleteApprovedExperiment" =>
        LET decided == reviewStatus \in {APPROVED, REJECTED}
            declined == dialogs' = <<Dialog("yes_no", COMPLETE_DIALOG_TITLE,
                                            FALSE)>>
            confirmed == dialogs' = <<Dialog("yes_no", COMPLETE_DIALOG_TITLE,
                                             TRUE)>>
        IN  /\ (lastResult'.passed \/ experimentStatus' # experimentStatus)
                => /\ decided
                   /\ confirmed
                   /\ experimentStatus' = "Completed"
            /\ ~decided
                => /\ lastResult' = WebhookResult("CompleteApprovedExperiment",
                                                  FALSE, NOT_DECIDED_MESSAGE)
                   /\ experimentStatus' = experimentStatus
            /\ declined
                => /\ lastResult' = Raised("CompleteApprovedExperiment",
                                           "SapioUserCancelledException")
                   /\ experimentStatus' = experimentStatus
    ]_vars

\* C2 witness: a rejected experiment was completed after the user confirmed.
C2_Witness ==
    /\ lastResult = WebhookResult("CompleteApprovedExperiment", TRUE, "")
    /\ reviewStatus = REJECTED
    /\ experimentStatus = "Completed"
    /\ dialogs = <<Dialog("yes_no", COMPLETE_DIALOG_TITLE, TRUE)>>

\* C3: a CustomAddSamplesButton run adds samples to the entry (or creates
\* any) only if the Review Status is unset or Open when it runs; and once
\* MarkReadyForReview or CancellingExperiment has run, every
\* CustomAddSamplesButton run returns the failed result "Samples cannot be
\* added ..." and adds nothing, until UnlockExperiment runs.
C3_AddSamplesOnlyWhileOpen ==
    [][lastResult'.handler = "CustomAddSamplesButton" =>
        /\ (\/ entryRecords' # entryRecords
            \/ sampleRecords' # sampleRecords
            \/ lastResult'.passed)
              => reviewStatus \in {None, OPEN}
        /\ lockRan
              => /\ lastResult' = WebhookResult("CustomAddSamplesButton",
                                                FALSE, NOT_OPEN_MESSAGE)
                 /\ entryRecords' = entryRecords
                 /\ sampleRecords' = sampleRecords
    ]_vars

\* C3 witness: after a cancellation the add-samples button was refused while
\* the entry already held samples added when the experiment was open.
C3_Witness ==
    /\ lockRan
    /\ reviewStatus = CANCELLED
    /\ entryRecords # {}
    /\ lastResult = WebhookResult("CustomAddSamplesButton", FALSE,
                                  NOT_OPEN_MESSAGE)

\* C4 (as claimed): after UnlockExperiment.execute the experiment status is
\* New, the Review Status is "Ready for Review" and the experiment options
\* are empty.
C4_UnlockSetsReadyForReview ==
    lastResult.handler = "UnlockExperiment"
        => /\ experimentStatus = "New"
           /\ reviewStatus = READY_FOR_REVIEW
           /\ experimentOptions = EmptyMap

(***************************************************************************)
(* Properties of ProtocolGrabber (checked under SpecGrabber).              *)
(***************************************************************************)
TemplateOf(template_id) ==
    CHOOSE p \in ProtocolTemplates : p.template_id = template_id

\* the description holds the tag at some offset, letter case ignored
HoldsTagIgnoringCase(description, tag) ==
    \E i \in 1..(Len(description) - Len(tag) + 1) :
        \A j \in 1..Len(tag) :
            LowerChar(description[i + j - 1]) = LowerChar(tag[j])

\* C1: in a ProtocolGrabber run that reached the sample count check, if the
\* chosen protocol's description holds the tag TAKEDA BUILDING BLOCK
\* RESTRICT TO ONE SAMPLE (case ignored) and the most recent samples table
\* holds more than one sample, an error dialog is shown, the result is
\* failed, and no tab, no entry and no committed record is added; in every
\* other case (no tag, no samples table, zero or one sample) the check
\* returns True and the run goes on to add the template's entries.
C1_SampleLimitCancelsGrabber ==
    [][(/\ lastResult'.handler = "ProtocolGrabber"
        /\ grabberContext'.stage \in {"source_samples", "created_entries",
                                      "built"}
        /\ \/ experimentEntries' = experimentEntries
           \/ Len(experimentEntries') > Len(experimentEntries))
       =>
        LET ctx == grabberContext'
            protocol == TemplateOf(ctx.protocol)
            over_limit ==
                /\ HoldsTagIgnoringCase(protocol.description,
                                        BUILDING_BLOCK_SAMPLE_LIMIT)
                /\ ctx.sample_step # 0
                /\ experimentEntries[ctx.sample_step].records > 1
        IN  /\ over_limit =>
                /\ lastResult' = WebhookResult("ProtocolGrabber", FALSE, "")
                /\ \E d \in 1..Len(dialogs') :
                      dialogs'[d] = Dialog("ok", SAMPLE_LIMIT_DIALOG, "ok")
                /\ UNCHANGED <<experimentTabs, experimentEntries,
                               processSteps>>
            /\ ~over_limit =>
                /\ EnforceSampleCountLimit(protocol, ctx.sample_step,
                                           ctx.source_samples)
                /\ lastResult' # WebhookResult("ProtocolGrabber", FALSE, "")
                /\ Len(experimentEntries') =
                      Len(experimentEntries) + Len(protocol.entries)
    ]_vars

\* C1 witness: the grabber was cancelled for a protocol tagged in mixed
\* case, the samples table holding two samples.
C1_Witness ==
    /\ lastResult = WebhookResult("ProtocolGrabber", FALSE, "")
    /\ grabberContext.stage = "source_samples"
    /\ grabberContext.protocol = 3
    /\ grabberContext.source_samples = 2
    /\ Len(dialogs) = 2

(***************************************************************************)
(* LaunchTestAliquots (launch_test_aliquots.py).  A record is a function   *)
(* of its fields; a record id is its index in samples or testAliquots, and *)
(* 0 stands for no record.  Sample ids are texts: <<"S1">> is "S1" and     *)
(* <<"S1", "-T", 2>> is "S1-T2".  The variables hold the record models of  *)
(* the running handler; committed tells whether they have been stored.     *)
(***************************************************************************)
STORAGE == "Storage"
READY == "Ready"
IN_PROCESS == "In Process"
Designations == {STORAGE, "ELISA", "HPLC/UPLC"}
Assays == {"Assay 1", "Assay 2"}

\* Bound: the number of test aliquots selected.
MaxSel == 3

\* sample_id + "-T" + str(aliquot_number) (test_aliquot_creator.py 195)
TestAliquotSampleId(sample_id, aliquot_number) ==
    sample_id \o <<"-T", aliquot_number>>

SourceSample(sample_id) ==
    [SampleId |-> sample_id, Parent |-> 0, ExemplarSampleStatus |-> "",
     ExemplarSampleType |-> "Serum",
     Concentration |-> 0, ConcentrationUnits |-> ""]

\* RecordModelUtil.get_value_list over a list of record ids
ValueList(ids, field) == [i \in 1..Len(ids) |-> testAliquots[ids[i]][field]]

Values(list) == {list[i] : i \in 1..Len(list)}

\* the `for ... if ...: append` loops of the validator
RECURSIVE Filter(_, _)
Filter(ids, kept) ==
    IF ids = <<>> THEN <<>>
    ELSE IF Head(ids) \in kept THEN <<Head(ids)>> \o Filter(Tail(ids), kept)
         ELSE Filter(Tail(ids), kept)

\* the record ids that pass each test of the validator
NotStorage == {id \in DOMAIN testAliquots :
                  testAliquots[id].Designation # STORAGE}
IsReady == {id \in DOMAIN testAliquots : testAliquots[id].Status = READY}

MSG_DESIGNATION_MISMATCH ==
    "Please select test aliquots with a matching designation!"
MSG_NO_DESIGNATION ==
    "None of the selected test aliquots have a designation matching an experiment!"
MSG_NONE_READY ==
    "None of the selected test aliquots designated for experiments are ready for processing!"
MSG_DUPLICATE_SOURCE == "The test aliquots must all have unique source samples."
MSG_ASSAY_MISMATCH == "The test aliquots must all have the same assay."

HasRepeatedSampleIdNever(ids, unique_sample_ids) == FALSE

\* lines 88-93: some sample id is met a second time
RECURSIVE HasRepeatedSampleId(_, _)
HasRepeatedSampleId(ids, unique_sample_ids) ==
    IF ids = <<>> THEN FALSE
    ELSE LET sample_id == testAliquots[Head(ids)].SampleId
         IN IF sample_id \in unique_sample_ids THEN TRUE
            ELSE HasRepeatedSampleId(Tail(ids),
                                     unique_sample_ids \cup {sample_id})

\* TestAliquotValidator.check_for_hard_errors (lines 45-100): the message
\* of the SapioUserErrorException raised, None when it returns
CheckForHardErrors(aliquot_instructions) ==
    LET unique_experiment_designations ==
            Values(ValueList(aliquot_instructions, "Designation"))
                \ {STORAGE}
        experiment_aliquots == Filter(aliquot_instructions, NotStorage)
        statuses == ValueList(experiment_aliquots, "Status")
        ready_aliquots == Filter(experiment_aliquots, IsReady)
        unique_assay_values == Values(ValueList(ready_aliquots, "Assay"))
    IN IF Cardinality(unique_experiment_designations) > 1
           THEN MSG_DESIGNATION_MISMATCH
       ELSE IF Cardinality(unique_experiment_designations) = 0
           THEN MSG_NO_DESIGNATION
       ELSE IF READY \notin Values(statuses)
           THEN MSG_NONE_READY
       ELSE IF HasRepeatedSampleId(ready_aliquots, {})
           THEN MSG_DUPLICATE_SOURCE
       ELSE IF Cardinality(unique_assay_values) > 1
           THEN MSG_ASSAY_MISMATCH
       ELSE None

STORAGE_DIALOG == "Storage Test Aliquots Detected"
STATUS_DIALOG == "Multiple statuses detected"

\* check_for_warnings line 114
StorageWarningNeeded(aliquot_instructions) ==
    STORAGE \in Values(ValueList(aliquot_instructions, "Designation"))

\* check_for_warnings lines 125-136
StatusWarningNeeded(aliquot_instructions) ==
    Cardinality(Values(ValueList(Filter(aliquot_instructions, NotStorage),
                                 "Status"))) > 1

IsValidAliquotReadyOnly ==
    {id \in DOMAIN testAliquots : testAliquots[id].Status = READY}

\* get_valid_aliquots line 155
IsValidAliquot ==
    {id \in DOMAIN testAliquots :
        testAliquots[id].Status = READY
        /\ testAliquots[id].Designation # STORAGE}

\* TestAliquotValidator.get_valid_aliquots (lines 146-157)
GetValidAliquots(aliquot_instructions) ==
    Filter(aliquot_instructions, IsValidAliquot)

\* identify_samples line 244
LaunchCheckForHardErrors ==
    /\ launchPc = "check_for_hard_errors"
    /\ LET error == CheckForHardErrors(selection)
       IN IF error # None
          THEN /\ launchPc' = "raised"
               /\ lastResult' = [Raised("LaunchTestAliquots",
                                        "SapioUserErrorException")
                                   EXCEPT !.message = error]
          ELSE /\ launchPc' = "check_for_warnings"
               /\ UNCHANGED lastResult
    /\ UNCHANGED <<samples, testAliquots, selection, validAliquots,
                   sampleAliquots, samplesStep, committed, dialogs,
                   copyVars, creatorVars, nonRecordVars>>

\* identify_samples line 247: check_for_warnings (lines 102-144); the
\* answers are those of the dialogs that get shown
LaunchCheckForWarnings ==
    /\ launchPc = "check_for_warnings"
    /\ \E storage_okay \in BOOLEAN, status_okay \in BOOLEAN :
         LET storage_dialog ==
                 IF StorageWarningNeeded(selection)
                 THEN <<Dialog("yes_no", STORAGE_DIALOG, storage_okay)>>
                 ELSE <<>>
             cancelled_at_storage ==
                 StorageWarningNeeded(selection) /\ ~storage_okay
             status_dialog ==
                 IF ~cancelled_at_storage /\ StatusWarningNeeded(selection)
                 THEN <<Dialog("yes_no", STATUS_DIALOG, status_okay)>>
                 ELSE <<>>
             cancelled ==
                 \/ cancelled_at_storage
                 \/ StatusWarningNeeded(selection) /\ ~status_okay
         IN /\ dialogs' = storage_dialog \o status_dialog
            /\ IF cancelled
               THEN /\ launchPc' = "raised"
                    /\ lastResult' = Raised("LaunchTestAliquots",
                                            "SapioUserCancelledException")
               ELSE /\ launchPc' = "get_valid_aliquots"
                    /\ UNCHANGED lastResult
    /\ UNCHANGED <<samples, testAliquots, selection, validAliquots,
                   sampleAliquots, samplesStep, committed, copyVars,
                   creatorVars, nonRecordVars>>

\* identify_samples line 249
LaunchGetValidAliquots ==
    /\ launchPc = "get_valid_aliquots"
    /\ validAliquots' = GetValidAliquots(selection)
    /\ launchPc' = "convert"
    /\ UNCHANGED <<samples, testAliquots, selection, sampleAliquots,
                   samplesStep, committed, lastResult, dialogs,
                   copyVars, creatorVars, nonRecordVars>>

NO_PARENT_MESSAGE == "does not have a parent sample."

\* lines 205-221: the sample aliquot created under source_sample for one
\* test aliquot (the instruction)
NewSampleAliquotWithSourceId(instruction, source_sample) ==
    [SampleId |-> instruction.SampleId,
     Parent |-> source_sample,
     ExemplarSampleStatus |-> IN_PROCESS,
     ExemplarSampleType |-> instruction.SampleType,
     Concentration |-> instruction.EstimatedConcentration,
     ConcentrationUnits |-> instruction.ConcentrationUnits]

NewSampleAliquot(instruction, source_sample) ==
    [SampleId |-> instruction.TestAliquotSampleId,
     Parent |-> source_sample,
     ExemplarSampleStatus |-> IN_PROCESS,
     ExemplarSampleType |-> instruction.SampleType,
     Concentration |-> instruction.EstimatedConcentration,
     ConcentrationUnits |-> instruction.ConcentrationUnits]

\* TestAliquotHandler.convert_test_aliquots_to_samples (lines 181-229):
\* the loop over the test aliquots still to do, on record models S and T,
\* with the sample aliquots made so far
RECURSIVE ConvertTestAliquotsToSamples(_, _, _, _)
ConvertTestAliquotsToSamples(todo, S, T, sample_aliquots) ==
    IF todo = <<>>
    THEN [samples |-> S, testAliquots |-> T,
          sample_aliquots |-> sample_aliquots, error |-> None]
    ELSE LET instruction == T[Head(todo)]
             source_sample == instruction.Parent
             new_aliquot == Len(S) + 1
         IN IF source_sample = 0
            THEN [samples |-> S, testAliquots |-> T,
                  sample_aliquots |-> sample_aliquots,
                  error |-> NO_PARENT_MESSAGE]
            ELSE ConvertTestAliquotsToSamples(
                     Tail(todo),
                     Append(S, NewSampleAliquot(instruction, source_sample)),
                     [T EXCEPT ![Head(todo)].AliquotSample = new_aliquot,
                               ![Head(todo)].Status = IN_PROCESS],
                     Append(sample_aliquots, new_aliquot))

\* the call of convert_test_aliquots_to_samples by a handler
Convert(handler, test_aliquots, next_pc) ==
    LET done == ConvertTestAliquotsToSamples(test_aliquots, samples,
                                             testAliquots, <<>>)
    IN /\ samples' = done.samples
       /\ testAliquots' = done.testAliquots
       /\ IF done.error # None
          THEN /\ launchPc' = "raised"
               /\ lastResult' = [Raised(handler, "SapioUserErrorException")
                                   EXCEPT !.message = done.error]
               /\ UNCHANGED sampleAliquots
          ELSE /\ launchPc' = next_pc
               /\ sampleAliquots' = done.sample_aliquots
               /\ UNCHANGED lastResult

\* LaunchTestAliquots.execute line 404
LaunchConvert ==
    /\ launchPc = "convert"
    /\ Convert("LaunchTestAliquots", validAliquots, "create_experiment")
    /\ UNCHANGED <<selection, validAliquots, samplesStep, committed,
                   dialogs, copyVars, creatorVars,
                   nonRecordVars>>

NO_TEMPLATE_MESSAGE == "No template found for the designation"

\* LaunchTestAliquots.execute lines 406-424: the template designated for
\* the aliquots is looked up and the experiment created from it
LaunchCreateExperiment ==
    /\ launchPc = "create_experiment"
    /\ \E designated_template_found \in BOOLEAN :
         IF designated_template_found
         THEN /\ launchPc' = "add_samples"
              /\ UNCHANGED lastResult
         ELSE /\ launchPc' = "raised"
              /\ lastResult' = [Raised("LaunchTestAliquots",
                                       "SapioUserErrorException")
                                  EXCEPT !.message = NO_TEMPLATE_MESSAGE]
    /\ UNCHANGED <<samples, testAliquots, selection, validAliquots,
                   sampleAliquots, samplesStep, committed, dialogs,
                   copyVars, creatorVars, nonRecordVars>>

\* TestAliquotHandler.add_samples (lines 375-384), then the handler returns
AddSamples ==
    /\ launchPc = "add_samples"
    /\ committed' = TRUE
    /\ samplesStep' = samplesStep \o sampleAliquots
    /\ launchPc' = "done"
    /\ lastResult' = [lastResult EXCEPT !.passed = TRUE]
    /\ UNCHANGED <<samples, testAliquots, selection, validAliquots,
                   sampleAliquots, dialogs, copyVars, creatorVars,
                   nonRecordVars>>

\* AddTestAliquotsToExperiment.execute line 118
AddToExperimentConvert ==
    /\ launchPc = "convert_chosen"
    /\ Convert("AddTestAliquotsToExperiment", selection, "add_samples")
    /\ UNCHANGED <<selection, validAliquots, samplesStep, committed,
                   dialogs, copyVars, creatorVars,
                   nonRecordVars>>

\* The source samples of the aliquots.
SourceSamples == <<SourceSample(<<"S1">>), SourceSample(<<"S2">>)>>

ESTIMATED_CONCENTRATION == 5

\* A test aliquot as TestAliquotCreator makes it under a source sample
\* (parent 0: the parent sample is gone, the SampleId field remains)
TestAliquot(aliquot_number, designation, status, source, has_parent, assay) ==
    [Designation |-> designation,
     Status |-> status,
     SampleId |-> SourceSamples[source].SampleId,
     Assay |-> assay,
     AliquotNumber |-> aliquot_number,
     SampleType |-> SourceSamples[source].ExemplarSampleType,
     TestAliquotSampleId |->
        TestAliquotSampleId(SourceSamples[source].SampleId, aliquot_number),
     EstimatedConcentration |-> ESTIMATED_CONCENTRATION,
     ConcentrationUnits |-> "mg/mL",
     Parent |-> IF has_parent THEN source ELSE 0,
     AliquotSample |-> 0]

Identity(n) == [i \in 1..n |-> i]

\* LaunchTestAliquots is invoked on a selection of up to MaxSel test
\* aliquots, each under its source sample.
InitLaunch ==
    /\ ParserIdle
    /\ ReviewIdle
    /\ GrabberIdle
    /\ CopyIdle
    /\ CreatorIdle
    /\ samples = SourceSamples
    /\ \E n \in 0..MaxSel :
         /\ \E f \in [1..n -> Designations \X {READY, IN_PROCESS}
                               \X (DOMAIN SourceSamples) \X Assays] :
               testAliquots = [i \in 1..n |->
                   TestAliquot(i, f[i][1], f[i][2], f[i][3], TRUE, f[i][4])]
         /\ selection = Identity(n)
    /\ validAliquots = <<>>
    /\ sampleAliquots = <<>>
    /\ samplesStep = <<>>
    /\ committed = FALSE
    /\ launchPc = "check_for_hard_errors"
    /\ lastResult = WebhookResult("LaunchTestAliquots", FALSE, "running")
    /\ dialogs = <<>>

NextLaunch ==
    \/ LaunchCheckForHardErrors
    \/ LaunchCheckForWarnings
    \/ LaunchGetValidAliquots
    \/ LaunchConvert
    \/ LaunchCreateExperiment
    \/ AddSamples

SpecLaunch == InitLaunch /\ [][NextLaunch]_vars

\* AddTestAliquotsToExperiment has let the user choose up to MaxSel test
\* aliquots of one designation and assay; some have lost their parent.
InitConvert ==
    /\ ParserIdle
    /\ ReviewIdle
    /\ GrabberIdle
    /\ CopyIdle
    /\ CreatorIdle
    /\ samples = SourceSamples
    /\ \E n \in 0..MaxSel :
         /\ \E f \in [1..n -> (DOMAIN SourceSamples) \X BOOLEAN \X (1..2)] :
               testAliquots = [i \in 1..n |->
                   TestAliquot(f[i][3], "ELISA", READY, f[i][1], f[i][2],
                               "Assay 1")]
         /\ selection = Identity(n)
    /\ validAliquots = <<>>
    /\ sampleAliquots = <<>>
    /\ samplesStep = <<>>
    /\ committed = FALSE
    /\ launchPc = "convert_chosen"
    /\ lastResult = WebhookResult("AddTestAliquotsToExperiment", FALSE,
                                  "running")
    /\ dialogs = <<>>

NextConvert == AddToExperimentConvert \/ AddSamples

SpecConvert == InitConvert /\ [][NextConvert]_vars

(***************************************************************************)
(* Properties of the test aliquot launch                                   *)
(***************************************************************************)
\* positions of the selection holding an aliquot not designated for storage
NonStoragePositions ==
    {i \in 1..Len(selection) :
        testAliquots[selection[i]].Designation # STORAGE}

\* positions of the selection holding a Ready aliquot not for storage
ReadyNonStoragePositions ==
    {i \in NonStoragePositions : testAliquots[selection[i]].Status = READY}

SelectionIsLaunchable ==
    /\ Cardinality({testAliquots[selection[i]].Designation :
                       i \in NonStoragePositions}) = 1
    /\ ReadyNonStoragePositions # {}
    /\ \A i, j \in ReadyNonStoragePositions :
          i # j => testAliquots[selection[i]].SampleId
                      # testAliquots[selection[j]].SampleId
    /\ \A i, j \in ReadyNonStoragePositions :
          testAliquots[selection[i]].Assay = testAliquots[selection[j]].Assay

\* C5: check_for_hard_errors returns without raising exactly when the
\* selection has exactly one distinct designation other than Storage, at
\* least one Ready aliquot not for storage, and the Ready aliquots not for
\* storage have pairwise distinct source sample ids and share one Assay;
\* in every other case it raises SapioUserErrorException.
C5_HardErrorsExactlyWhenNotLaunchable ==
    [][launchPc = "check_for_hard_errors" =>
         IF SelectionIsLaunchable
         THEN launchPc' = "check_for_warnings" /\ lastResult' = lastResult
         ELSE /\ launchPc' = "raised"
              /\ lastResult'.exception = "SapioUserErrorException"]_vars

\* C5 witness: the check returned on a full selection that holds a storage
\* aliquot and two Ready experiment aliquots of different source samples.
C5_Witness ==
    /\ launchPc = "check_for_warnings"
    /\ Len(selection) = MaxSel
    /\ Cardinality(ReadyNonStoragePositions) = 2
    /\ NonStoragePositions # 1..Len(selection)

\* the position of a test aliquot in the selection
PositionInSelection(id) == CHOOSE i \in 1..Len(selection) : selection[i] = id

\* C6: identify_samples returns exactly the selected test aliquots that are
\* Ready and not designated for storage, in selection order; when the
\* selection holds a Storage aliquot, or an aliquot not for storage that is
\* not Ready, the user has confirmed the exclusion before the list is
\* returned; and an answer of no raises SapioUserCancelledException.
C6_IdentifySamples ==
    /\ launchPc = "convert" =>
         /\ Values(validAliquots) =
               {selection[i] : i \in ReadyNonStoragePositions}
         /\ \A k, l \in 1..Len(validAliquots) :
               k < l => PositionInSelection(validAliquots[k])
                           < PositionInSelection(validAliquots[l])
         /\ NonStoragePositions # 1..Len(selection) =>
               \E d \in 1..Len(dialogs) :
                   dialogs[d] = Dialog("yes_no", STORAGE_DIALOG, TRUE)
         /\ NonStoragePositions # ReadyNonStoragePositions =>
               \E d \in 1..Len(dialogs) :
                   dialogs[d] = Dialog("yes_no", STATUS_DIALOG, TRUE)
    /\ (\E d \in 1..Len(dialogs) : dialogs[d].answer = FALSE) =>
         /\ launchPc = "raised"
         /\ lastResult.exception = "SapioUserCancelledException"

\* C6 witness: the list was returned for a selection with a storage
\* aliquot and an aliquot in process, both exclusions confirmed.
C6_Witness ==
    /\ launchPc = "convert"
    /\ Len(dialogs) = 2
    /\ Len(validAliquots) = 1
    /\ validAliquots[1] = MaxSel

\* C7: convert_test_aliquots_to_samples makes, for each test aliquot given,
\* exactly one new sample that is a child of the aliquot's parent sample
\* and has the aliquot's TestAliquotSampleId as Sample ID; afterwards the
\* new sample and the test aliquot are In Process and the aliquot's
\* AliquotSample link points to the new sample; a test aliquot without a
\* parent sample raises SapioUserErrorException.
C7_ConvertMakesOneSamplePerAliquot ==
    launchPc # "convert_chosen" =>
        IF \E i \in 1..Len(selection) : testAliquots[selection[i]].Parent = 0
        THEN /\ launchPc = "raised"
             /\ lastResult.exception = "SapioUserErrorException"
        ELSE /\ launchPc # "raised"
             /\ Len(sampleAliquots) = Len(selection)
             /\ Len(samples) = Len(SourceSamples) + Len(selection)
             /\ \A i, j \in 1..Len(sampleAliquots) :
                   i # j => sampleAliquots[i] # sampleAliquots[j]
             /\ \A i \in 1..Len(selection) :
                   LET test_aliquot == testAliquots[selection[i]]
                       new_sample == samples[sampleAliquots[i]]
                   IN /\ sampleAliquots[i] > Len(SourceSamples)
                      /\ new_sample.Parent = test_aliquot.Parent
                      /\ new_sample.SampleId = test_aliquot.TestAliquotSampleId
                      /\ new_sample.ExemplarSampleStatus = IN_PROCESS
                      /\ test_aliquot.Status = IN_PROCESS
                      /\ test_aliquot.AliquotSample = sampleAliquots[i]

\* C7 witness: two or more test aliquots with parents were converted.
C7_Witness ==
    /\ launchPc = "add_samples"
    /\ Len(selection) >= 2
    /\ Len(sampleAliquots) = Len(selection)

(***************************************************************************)
(* sapio/webhook/test_aliquot/copy_concentration.py                        *)
(***************************************************************************)
PASS == "Pass"
FAIL == "Fail"

\* Bounds: the samples (and test aliquots) of the experiment, and the
\* sample details of its assay results entry.
MaxCopySamples == 2
MaxDetails == 2

HPLC_CONCENTRATION == "ConcentrationmgmL"
ELISA_AVG_I2S == "AvgI2SngmL"

\* DESIGNATION_UNITS.get(designation) (lines 18-21)
DesignationUnits(designation) ==
    IF designation = "HPLC/UPLC" THEN "mg/mL"
    ELSE IF designation = "ELISA" THEN "ng/mL"
    ELSE None

\* get_conc_field_name: DESIGNATION_CONC_FIELD.get(designation)
ConcFieldName(designation) ==
    IF designation = "HPLC/UPLC" THEN HPLC_CONCENTRATION
    ELSE IF designation = "ELISA" THEN ELISA_AVG_I2S
    ELSE None

\* sample.get_reverse_side_link(AliquotSample): the test aliquots whose
\* AliquotSample side link points to the sample
ReverseSideLink(T, sample) ==
    {id \in DOMAIN T : T[id].AliquotSample = sample}

\* list.pop() on the linked test aliquots, listed in record order
Pop(linked) == CHOOSE id \in linked : \A other \in linked : other <= id

\* CopyAssayResults.map_to_sources (lines 150-166): sample -> the parent
\* of its test aliquot (0: no parent)
MapToSources(T, step_samples) ==
    [sample \in {s \in Values(step_samples) : ReverseSideLink(T, s) # {}}
        |-> T[Pop(ReverseSideLink(T, sample))].Parent]

\* CopyAssayResults.enforce_unique_sources (lines 119-132) raises
HasDuplicateSources(source_samples) ==
    \E a, b \in DOMAIN source_samples :
        a # b /\ source_samples[a] = source_samples[b]

\* samples_by_sample_id.get(sample_id), 0 when there is none
SampleBySampleId(S, step_samples, sample_id) ==
    IF \E sample \in Values(step_samples) : S[sample].SampleId = sample_id
    THEN CHOOSE sample \in Values(step_samples) :
             S[sample].SampleId = sample_id
    ELSE 0

MSG_NO_PASS_FAIL == "The assay details entry does not have a pass/fail value."
MSG_NOT_RECOGNIZED == "The pass/fail value for the assay details entry is not recognized."
MSG_DUPLICATE_SOURCES == "There are duplicate source samples in the experiment."
MSG_NO_UNITS == "The designation for this experiment is not recognized."
MSG_NO_SAMPLE == "does not have a source sample in this experiment."
MSG_NO_TEST_ALIQUOT == "does not have a test aliquot."
MSG_NO_SOURCE == "could not be found."

\* pass_results lines 82-106: the loop over the sample details still to do
RECURSIVE PassLoop(_, _, _, _, _, _)
PassLoop(details, S, T, source_samples, conc_field_name, units) ==
    IF details = <<>>
    THEN [samples |-> S, testAliquots |-> T, error |-> None]
    ELSE LET sample_data == Head(details)
             sample == SampleBySampleId(S, samplesStep, sample_data.SampleId)
             test_aliquots == ReverseSideLink(T, sample)
             marked == [T EXCEPT ![Pop(test_aliquots)].Status = PASS]
         IN IF sample = 0
            THEN [samples |-> S, testAliquots |-> T, error |-> MSG_NO_SAMPLE]
            ELSE IF Cardinality(test_aliquots) < 1
            THEN [samples |-> S, testAliquots |-> T,
                  error |-> MSG_NO_TEST_ALIQUOT]
            ELSE IF source_samples[sample] = 0
            THEN [samples |-> S, testAliquots |-> marked,
                  error |-> MSG_NO_SOURCE]
            ELSE PassLoop(Tail(details),
                          [S EXCEPT ![source_samples[sample]].Concentration =
                                        sample_data[conc_field_name],
                                    ![source_samples[sample]].ConcentrationUnits =
                                        units],
                          marked, source_samples, conc_field_name, units)

\* CopyAssayResults.pass_results (lines 54-106)
PassResults ==
    LET source_samples == MapToSources(testAliquots, samplesStep)
        conc_field_name == ConcFieldName(templateDesignation)
        units == DesignationUnits(templateDesignation)
    IN IF HasDuplicateSources(source_samples)
       THEN [samples |-> samples, testAliquots |-> testAliquots,
             error |-> MSG_DUPLICATE_SOURCES]
       ELSE IF units = None
       THEN [samples |-> samples, testAliquots |-> testAliquots,
             error |-> MSG_NO_UNITS]
       ELSE PassLoop(sampleDetails, samples, testAliquots, source_samples,
                     conc_field_name, units)

FailResultsLastLinkOnly ==
    [samples |-> samples,
     testAliquots |->
        [id \in DOMAIN testAliquots |->
            IF /\ testAliquots[id].AliquotSample \in Values(samplesStep)
               /\ id = Pop(ReverseSideLink(testAliquots,
                                           testAliquots[id].AliquotSample))
            THEN [testAliquots[id] EXCEPT !.Status = FAIL]
            ELSE testAliquots[id]],
     error |-> None]

\* CopyAssayResults.fail_results (lines 134-148)
FailResults ==
    [samples |-> samples,
     testAliquots |->
        [id \in DOMAIN testAliquots |->
            IF testAliquots[id].AliquotSample \in Values(samplesStep)
            THEN [testAliquots[id] EXCEPT !.Status = FAIL]
            ELSE testAliquots[id]],
     error |-> None]

\* CopyAssayResults.execute (lines 34-52)
CopyAssayResults ==
    /\ copyPc = "idle"
    /\ IF passFail = None
       THEN /\ lastResult' = WebhookResult("CopyAssayResults", FALSE,
                                           MSG_NO_PASS_FAIL)
            /\ copyPc' = "done"
            /\ UNCHANGED <<samples, testAliquots, committed>>
       ELSE IF passFail \notin {PASS, FAIL}
       THEN /\ lastResult' = [Raised("CopyAssayResults",
                                     "SapioUserErrorException")
                                 EXCEPT !.message = MSG_NOT_RECOGNIZED]
            /\ copyPc' = "raised"
            /\ UNCHANGED <<samples, testAliquots, committed>>
       ELSE LET done == IF passFail = PASS THEN PassResults
                        ELSE FailResults
            IN /\ samples' = done.samples
               /\ testAliquots' = done.testAliquots
               /\ IF done.error # None
                  THEN /\ lastResult' = [Raised("CopyAssayResults",
                                                "SapioUserErrorException")
                                           EXCEPT !.message = done.error]
                       /\ copyPc' = "raised"
                       /\ UNCHANGED committed
                  ELSE /\ lastResult' = WebhookResult("CopyAssayResults",
                                                      TRUE, "")
                       /\ copyPc' = "done"
                       /\ committed' = TRUE
    /\ UNCHANGED <<selection, validAliquots, sampleAliquots, samplesStep,
                   launchPc, sampleDetails, passFail, templateDesignation,
                   creatorVars, dialogs, nonRecordVars>>

\* The sample aliquot that the launch made for a test aliquot of S1.
ExperimentSample(number) ==
    NewSampleAliquot(TestAliquot(number, "ELISA", IN_PROCESS, 1, TRUE,
                                 "Assay 1"), 1)

\* A test aliquot in process with the given parent (0: none) and
\* AliquotSample side link (0: none).
LaunchedTestAliquot(number, parent, aliquot_sample) ==
    [TestAliquot(number, "ELISA", IN_PROCESS,
                 IF parent = 0 THEN 1 ELSE parent, parent # 0, "Assay 1")
        EXCEPT !.AliquotSample = aliquot_sample]

UNKNOWN_SAMPLE_ID == <<"S9", "-T", 1>>

\* A sample detail of the assay results entry; the two concentration
\* fields of the row with the given number hold different values.
SampleDetail(number, sample_id) ==
    [SampleId |-> sample_id,
     ConcentrationmgmL |-> 10 + number,
     AvgI2SngmL |-> 20 + number]

\* CopyAssayResults is invoked on an experiment with up to MaxCopySamples
\* samples (the last may be missing from the Samples entry), as many test
\* aliquots, and up to MaxDetails sample details.
InitCopy ==
    /\ ParserIdle
    /\ ReviewIdle
    /\ GrabberIdle
    /\ CreatorIdle
    /\ \E k \in 1..MaxCopySamples :
         /\ samples = SourceSamples
                        \o [j \in 1..k |-> ExperimentSample(j)]
         /\ \E in_step \in {k - 1, k} :
               samplesStep = [j \in 1..in_step |-> Len(SourceSamples) + j]
         /\ \E f \in [1..k -> (0..Len(SourceSamples)) \X (0..k)] :
               testAliquots = [i \in 1..k |->
                   LaunchedTestAliquot(i, f[i][1],
                       IF f[i][2] = 0 THEN 0
                       ELSE Len(SourceSamples) + f[i][2])]
         /\ \E m \in 0..MaxDetails :
               \E g \in [1..m -> 0..k] :
                   sampleDetails = [i \in 1..m |->
                       SampleDetail(i,
                           IF g[i] = 0 THEN UNKNOWN_SAMPLE_ID
                           ELSE ExperimentSample(g[i]).SampleId)]
    /\ \E result \in {<<None, None>>, <<"Maybe", None>>, <<FAIL, None>>,
                      <<PASS, "HPLC/UPLC">>, <<PASS, "ELISA">>,
                      <<PASS, STORAGE>>} :
         /\ passFail = result[1]
         /\ templateDesignation = result[2]
    /\ copyPc = "idle"
    /\ selection = <<>>
    /\ validAliquots = <<>>
    /\ sampleAliquots = <<>>
    /\ committed = FALSE
    /\ launchPc = "idle"
    /\ lastResult = NoResult
    /\ dialogs = <<>>

NextCopy == CopyAssayResults

SpecCopy == InitCopy /\ [][NextCopy]_vars

(***************************************************************************)
(* Properties of CopyAssayResults                                          *)
(***************************************************************************)
CopyPassed ==
    copyPc = "done" /\ passFail = PASS /\ lastResult.passed

\* For sample detail d: a test aliquot linked to the experiment sample
\* with the detail's Sample ID has status Pass, and its parent sample
\* holds the designation's units and the designation-specific
\* concentration value of sample detail `from`.
DetailCopied(d, from) ==
    \E sample \in Values(samplesStep) :
        /\ samples[sample].SampleId = sampleDetails[d].SampleId
        /\ \E id \in ReverseSideLink(testAliquots, sample) :
              /\ testAliquots[id].Status = PASS
              /\ testAliquots[id].Parent # 0
              /\ LET source_sample == samples[testAliquots[id].Parent]
                 IN /\ source_sample.ConcentrationUnits =
                          IF templateDesignation = "ELISA" THEN "ng/mL"
                          ELSE "mg/mL"
                    /\ source_sample.Concentration =
                          IF templateDesignation = "ELISA"
                          THEN sampleDetails[from].AvgI2SngmL
                          ELSE sampleDetails[from].ConcentrationmgmL

C9_FailMarksAllAndKeepsConcentrations ==
    [][copyPc = "idle" /\ passFail = FAIL =>
         /\ copyPc' = "done"
         /\ lastResult'.passed
         /\ \A id \in DOMAIN testAliquots :
               testAliquots[id].AliquotSample \in Values(samplesStep)
                  => testAliquots'[id].Status = FAIL
         /\ DOMAIN samples' = DOMAIN samples
         /\ \A sample \in DOMAIN samples :
               /\ samples'[sample].Concentration =
                     samples[sample].Concentration
               /\ samples'[sample].ConcentrationUnits =
                     samples[sample].ConcentrationUnits]_vars

\* C9 witness: a Fail run completed with two test aliquots linked to one
\* sample of the Samples entry.
C9_Witness ==
    /\ copyPc = "done"
    /\ passFail = FAIL
    /\ \E a, b \in DOMAIN testAliquots :
          /\ a # b
          /\ testAliquots[a].AliquotSample = testAliquots[b].AliquotSample
          /\ testAliquots[a].AliquotSample \in Values(samplesStep)
          /\ testAliquots[a].Status = FAIL
          /\ testAliquots[b].Status = FAIL

(***************************************************************************)
(* sapio/webhook/test_aliquot/test_aliquot_creator.py and the buttons      *)
(* add_test_aliquot_action_button.py, add_test_aliquot_toolbar_button.py   *)
(***************************************************************************)
\* Bounds: the number of test aliquots the user asks to create, and the
\* number of test aliquots in the system.
MaxAliquots == 2
MaxTestAliquots == 4

\* dict.update(other)
DictUpdateAll(map, other) ==
    [k \in (DOMAIN map) \cup (DOMAIN other) |->
        IF k \in DOMAIN other THEN other[k] ELSE map[k]]

\* the sample's test aliquot children, in record order
RECURSIVE Children(_, _)
Children(T, sample) ==
    IF T = <<>> THEN <<>>
    ELSE Children(SubSeq(T, 1, Len(T) - 1), sample)
           \o (IF T[Len(T)].Parent = sample THEN <<T[Len(T)]>> ELSE <<>>)

\* get_highest_aliquot_number lines 150-152: the loop, None as 0 - 1
RECURSIVE HighestLoop(_, _)
HighestLoop(test_aliquots, highest_aliquot_number) ==
    IF test_aliquots = <<>> THEN highest_aliquot_number
    ELSE HighestLoop(Tail(test_aliquots),
             IF \/ highest_aliquot_number = 0 - 1
                \/ highest_aliquot_number < Head(test_aliquots).AliquotNumber
             THEN Head(test_aliquots).AliquotNumber
             ELSE highest_aliquot_number)

\* TestAliquotCreator.get_highest_aliquot_number (lines 141-157); the
\* mutation counts the children
GetHighestAliquotNumberByCount(sample) ==
    Len(Children(testAliquots, sample))

GetHighestAliquotNumber(sample) ==
    LET highest_aliquot_number == HighestLoop(Children(testAliquots, sample),
                                              0 - 1)
    IN IF highest_aliquot_number = 0 - 1 THEN 0 ELSE highest_aliquot_number

\* TestAliquotCreator.get_table_default_row (lines 172-187); the row has no
\* Assay and no EstimatedConcentration yet (None, 0). OtherSampleId and
\* VolumeUnits are left out: no handler modelled here reads them.
GetTableDefaultRow(sample, product, study_name, aliquot_number) ==
    [SampleId |-> samples[sample].SampleId,
     TestAliquotSampleId |->
        TestAliquotSampleId(samples[sample].SampleId, aliquot_number),
     AliquotNumber |-> aliquot_number,
     SampleType |-> samples[sample].ExemplarSampleType,
     Designation |-> STORAGE,
     Status |-> READY,
     ConcentrationUnits |-> "mg/mL",
     Product |-> product,
     StudyName |-> study_name,
     Assay |-> None,
     EstimatedConcentration |-> 0]

\* TestAliquotCreator.get_hard_coded_values (lines 189-199)
GetHardCodedValues(sample, product, study_name, aliquot_number) ==
    [SampleId |-> samples[sample].SampleId,
     TestAliquotSampleId |->
        TestAliquotSampleId(samples[sample].SampleId, aliquot_number),
     AliquotNumber |-> aliquot_number,
     StudyName |-> study_name,
     Product |-> product]

ACTION_BUTTON == "AddTestAliquotsButton"
TOOLBAR_BUTTON == "AddTestAliquotsFromSampleDetail"
DETAIL_SAMPLE_TYPE == "Plasma"
ASSAY_REQUIRED ==
    "ERROR: An Assay is required when a Designation is anything other than 'Storage'!"

\* The button's execute up to the first table dialog:
\* prompt_for_number_of_aliquots_to_create, get_highest_aliquot_number
\* and prompt_user_with_aliquot_details lines 56-113.
CreatorBegin ==
    /\ creatorPc = "idle"
    /\ \E button \in {ACTION_BUTTON, TOOLBAR_BUTTON},
          sample \in DOMAIN samples,
          number_of_aliquots_to_create \in 1..MaxAliquots,
          has_study \in BOOLEAN :
         LET highest_aliquot_number == GetHighestAliquotNumber(sample)
             product == IF has_study THEN "Product 1" ELSE ""
             study_name == IF has_study THEN "Study 1" ELSE ""
             default_row_values ==
                 IF button = TOOLBAR_BUTTON
                 THEN [SampleType |-> DETAIL_SAMPLE_TYPE,
                       EstimatedConcentration |-> ESTIMATED_CONCENTRATION]
                 ELSE EmptyMap
             override_fields ==
                 IF button = TOOLBAR_BUTTON
                 THEN [SampleType |-> DETAIL_SAMPLE_TYPE]
                 ELSE EmptyMap
         IN /\ Len(testAliquots) + number_of_aliquots_to_create
                  <= MaxTestAliquots
            /\ creatorSample' = sample
            /\ overrideFields' = override_fields
            /\ defaultValues' =
                  [i \in 1..number_of_aliquots_to_create |->
                      DictUpdateAll(
                          DictUpdateAll(
                              GetTableDefaultRow(sample, product, study_name,
                                  highest_aliquot_number + i),
                              default_row_values),
                          override_fields)]
            /\ hardCodedValues' =
                  [aliquot_number \in
                       (highest_aliquot_number + 1) ..
                       (highest_aliquot_number + number_of_aliquots_to_create)
                   |-> DictUpdateAll(
                           GetHardCodedValues(sample, product, study_name,
                                              aliquot_number),
                           override_fields)]
            /\ resultValues' = defaultValues'
            /\ errorMsg' = None
            /\ creatorPc' = "table_dialog"
            /\ lastResult' = WebhookResult(button, FALSE, "running")
            /\ dialogs' = <<Dialog("integer_input", "Create Test Aliquots",
                                   number_of_aliquots_to_create)>>
    /\ UNCHANGED <<samples, testAliquots, selection, validAliquots,
                   sampleAliquots, samplesStep, committed, launchPc,
                   copyVars, nonRecordVars>>

\* line 119
CREATE_DIALOG_TITLE == "Create Test Aliquots"

\* What the user does to a row of the table dialog.
RowEdits == {"keep", "designation", "assay", "clear_assay", "sample_id"}

\* The edits of a user who leaves the proposed identifiers as they are.
AcceptingEdits == {"keep", "assay"}

EDITED_SAMPLE_ID == <<"S9">>

Edit(row, edit) ==
    IF edit = "designation" THEN [row EXCEPT !.Designation = "ELISA"]
    ELSE IF edit = "assay" THEN [row EXCEPT !.Assay = "Assay 1"]
    ELSE IF edit = "clear_assay" THEN [row EXCEPT !.Assay = ""]
    ELSE IF edit = "sample_id" THEN [row EXCEPT !.SampleId = EDITED_SAMPLE_ID]
    ELSE row

\* lines 126-128: designation != "Storage" and not assay; the mutation
\* takes an empty text for an assay
RowNeedsAssayNoneOnly(row) == row.Designation # STORAGE /\ row.Assay = None

RowNeedsAssay(row) == row.Designation # STORAGE /\ row.Assay \in {None, ""}

\* prompt_user_with_aliquot_details lines 117-137: one round of the loop.
\* The table dialog returns the rows as the user left them, or is cancelled.
TableDialog(row_edits) ==
    /\ creatorPc = "table_dialog"
    /\ \/ \E edits \in [1..Len(resultValues) -> row_edits] :
            LET result_values == [i \in 1..Len(resultValues) |->
                                     Edit(resultValues[i], edits[i])]
            IN /\ resultValues' = result_values
               /\ dialogs' = <<Head(dialogs),
                               Dialog("table", CREATE_DIALOG_TITLE,
                                      result_values)>>
               /\ IF \E i \in 1..Len(result_values) :
                        RowNeedsAssay(result_values[i])
                  THEN /\ errorMsg' = ASSAY_REQUIRED
                       /\ creatorPc' = "table_dialog"
                  ELSE /\ errorMsg' = None
                       /\ creatorPc' = "returned"
               /\ UNCHANGED lastResult
       \/ /\ creatorPc' = "raised"
          /\ lastResult' = Raised(lastResult.handler,
                                  "SapioUserCancelledException")
          /\ dialogs' = <<Head(dialogs),
                          Dialog("table", CREATE_DIALOG_TITLE, "cancel")>>
          /\ UNCHANGED <<resultValues, errorMsg>>
    /\ UNCHANGED <<samples, testAliquots, selection, validAliquots,
                   sampleAliquots, samplesStep, committed, launchPc,
                   creatorSample, overrideFields, defaultValues,
                   hardCodedValues, copyVars, nonRecordVars>>

CreatorTableDialog == TableDialog(RowEdits)

CreatorTableDialogAccepting == TableDialog(AcceptingEdits)

\* add_models_with_data and sample.add_children: the C_TestAliquot record
\* of a row, under the sample
TestAliquotOfRow(row, sample) ==
    [Designation |-> row.Designation,
     Status |-> row.Status,
     SampleId |-> row.SampleId,
     Assay |-> row.Assay,
     AliquotNumber |-> row.AliquotNumber,
     SampleType |-> row.SampleType,
     TestAliquotSampleId |-> row.TestAliquotSampleId,
     EstimatedConcentration |-> row.EstimatedConcentration,
     ConcentrationUnits |-> row.ConcentrationUnits,
     Parent |-> sample,
     AliquotSample |-> 0]

\* The rest of the button's execute: action button lines 35-42, toolbar
\* button lines 52-70 (which sets the sample type on every row again).
CreatorAddModels ==
    /\ creatorPc = "returned"
    /\ LET rows == IF lastResult.handler = TOOLBAR_BUTTON
                   THEN [i \in 1..Len(resultValues) |->
                            [resultValues[i]
                                EXCEPT !.SampleType = DETAIL_SAMPLE_TYPE]]
                   ELSE resultValues
       IN testAliquots' = testAliquots
             \o [i \in 1..Len(rows) |-> TestAliquotOfRow(rows[i],
                                                         creatorSample)]
    /\ committed' = TRUE
    /\ creatorPc' = "done"
    /\ lastResult' = WebhookResult(lastResult.handler, TRUE,
                                   "Successfully added")
    /\ UNCHANGED <<samples, selection, validAliquots, sampleAliquots,
                   samplesStep, launchPc, creatorSample, overrideFields,
                   defaultValues, hardCodedValues, resultValues, errorMsg,
                   dialogs, copyVars, nonRecordVars>>

\* A button is pressed on one of the source samples; S1 may already have
\* a test aliquot.
InitCreator ==
    /\ ParserIdle
    /\ ReviewIdle
    /\ GrabberIdle
    /\ CopyIdle
    /\ CreatorIdle
    /\ samples = SourceSamples
    /\ \E existing \in 0..1 :
         testAliquots = [i \in 1..existing |->
                            TestAliquot(i, STORAGE, READY, 1, TRUE, None)]
    /\ selection = <<>>
    /\ validAliquots = <<>>
    /\ sampleAliquots = <<>>
    /\ samplesStep = <<>>
    /\ committed = FALSE
    /\ launchPc = "idle"
    /\ lastResult = NoResult
    /\ dialogs = <<>>

NextCreator == CreatorBegin \/ CreatorTableDialog \/ CreatorAddModels

SpecCreator == InitCreator /\ [][NextCreator]_vars

\* The webhook has ended; a button can be pressed again.
CreatorEnd ==
    /\ creatorPc \in {"done", "raised"}
    /\ creatorSample' = 0
    /\ overrideFields' = EmptyMap
    /\ defaultValues' = <<>>
    /\ hardCodedValues' = <<>>
    /\ resultValues' = <<>>
    /\ errorMsg' = None
    /\ creatorPc' = "idle"
    /\ UNCHANGED <<samples, testAliquots, selection, validAliquots,
                   sampleAliquots, samplesStep, committed, launchPc,
                   lastResult, dialogs, copyVars, nonRecordVars>>

\* Runs of the buttons one after another, by a user who leaves the
\* proposed identifiers as they are. Test aliquots may have been deleted
\* before, and the children of a sample come in no order of their numbers.
InitCreatorRuns ==
    /\ ParserIdle
    /\ ReviewIdle
    /\ GrabberIdle
    /\ CopyIdle
    /\ CreatorIdle
    /\ samples = SourceSamples
    /\ \E numbers \in {<<>>, <<1>>, <<3>>, <<2, 1>>} :
         testAliquots = [i \in 1..Len(numbers) |->
                            TestAliquot(numbers[i], STORAGE, READY, 1, TRUE,
                                        None)]
    /\ selection = <<>>
    /\ validAliquots = <<>>
    /\ sampleAliquots = <<>>
    /\ samplesStep = <<>>
    /\ committed = FALSE
    /\ launchPc = "idle"
    /\ lastResult = NoResult
    /\ dialogs = <<>>

NextCreatorRuns ==
    \/ CreatorBegin
    \/ CreatorTableDialogAccepting
    \/ CreatorAddModels
    \/ CreatorEnd

SpecCreatorRuns == InitCreatorRuns /\ [][NextCreatorRuns]_vars

(***************************************************************************)
(* Properties of the test aliquot creator                                  *)
(***************************************************************************)
\* C10: in the rows prompt_user_with_aliquot_details returns, the
\* hard-coded fields (SampleId, TestAliquotSampleId, AliquotNumber,
\* StudyName, Product) and the override fields hold the computed values,
\* whatever the defaults were and whatever the user entered.
C10_ReturnedRowsHoldHardCodedValues ==
    creatorPc = "returned" =>
        \A i \in 1..Len(resultValues) :
            LET hard_coded_values ==
                    hardCodedValues[defaultValues[i].AliquotNumber]
            IN \A field \in DOMAIN hard_coded_values :
                  resultValues[i][field] = hard_coded_values[field]

(***************************************************************************)
(* Properties of CancellingExperiment                                      *)
(***************************************************************************)
\* C11: CancellingExperiment.execute shows the reason dialog again, also
\* after the user dismisses it, until a non-empty reason is entered; it
\* returns a result only with that non-empty reason stored in
\* ReasonForCancelling and Review Status set to Cancelled; and the step on
\* which the user enters a non-empty reason is the one on which it returns.
C11_CancellingEnforcesReason ==
    [][cancelPc = "prompt" =>
         LET answer == dialogs'[1].answer
         IN /\ answer \notin Reasons \ {""} =>
                  /\ cancelPc' = "prompt"
                  /\ UNCHANGED <<reasonForCancelling, reviewStatus,
                                 lastResult>>
            /\ answer \in Reasons \ {""} =>
                  /\ cancelPc' = "idle"
                  /\ lastResult'.passed
                  /\ reasonForCancelling' = answer
                  /\ reviewStatus' = CANCELLED
            /\ lastResult'.passed =>
                  /\ reasonForCancelling' # ""
                  /\ reviewStatus' = CANCELLED]_vars

\* C11 witness: the handler returned with the reason the user entered.
C11_Witness ==
    /\ cancelPc = "idle"
    /\ lastResult.handler = "CancellingExperiment"
    /\ lastResult.passed
    /\ dialogs = <<Dialog("string_input", CANCEL_DIALOG_TITLE,
                          reasonForCancelling)>>
    /\ reasonForCancelling # ""

(***************************************************************************)
(* sapio/webhook/hplc/empower_parser.py: EmpowerParser.parse                *)
(* Text is a sequence of characters. Numbers are exact rationals            *)
(* <<num, den>> with den > 0 in lowest terms; None is <<0, 0>> and the      *)
(* float nan is <<1, 0>>. Rounding of floats is not modelled.               *)
(***************************************************************************)
NaN == <<1, 0>>

IsNumber(v) == v[2] # 0

Abs(n) == IF n < 0 THEN 0 - n ELSE n

RECURSIVE GCD(_, _)
GCD(a, b) == IF b = 0 THEN a ELSE GCD(b, a % b)

\* num/den in lowest terms with a positive denominator (den # 0)
Rat(num, den) ==
    LET g == GCD(Abs(num), Abs(den))
        sign == IF den < 0 THEN 0 - 1 ELSE 1
    IN <<(sign * num) \div g, (sign * den) \div g>>

FromInt(n) == <<n, 1>>

\* float arithmetic: nan in, nan out; x / 0 is handled by the callers
RatAdd(a, b) ==
    IF a = NaN \/ b = NaN THEN NaN
    ELSE Rat(a[1] * b[2] + b[1] * a[2], a[2] * b[2])

RatSub(a, b) ==
    IF a = NaN \/ b = NaN THEN NaN
    ELSE Rat(a[1] * b[2] - b[1] * a[2], a[2] * b[2])

RatMul(a, b) ==
    IF a = NaN \/ b = NaN THEN NaN
    ELSE Rat(a[1] * b[1], a[2] * b[2])

RatDiv(a, b) ==
    IF a = NaN \/ b = NaN THEN NaN
    ELSE Rat(a[1] * b[2], a[2] * b[1])

RatAbs(a) == IF a = NaN THEN NaN ELSE <<Abs(a[1]), a[2]>>

\* Python `x != 0` on a float: true of nan
NotZero(a) == a = NaN \/ a[1] # 0

RECURSIVE RatSum(_)
RatSum(values) ==
    IF values = <<>> THEN FromInt(0)
    ELSE RatAdd(Head(values), RatSum(Tail(values)))

\* statistics.mean of a non-empty list of numbers
Mean(values) == RatDiv(RatSum(values), FromInt(Len(values)))

DigitChars == <<"0", "1", "2", "3", "4", "5", "6", "7", "8", "9">>

IsDigit(c) == \E i \in DOMAIN DigitChars : DigitChars[i] = c

DigitValue(c) == (CHOOSE i \in DOMAIN DigitChars : DigitChars[i] = c) - 1

\* int(text) and float(text) succeed on the texts of the model exactly
\* when the text is a non-empty run of digits
CanParse(text) ==
    /\ text # <<>>
    /\ \A i \in DOMAIN text : IsDigit(text[i])

RECURSIVE ParseNumber(_)
ParseNumber(text) ==
    IF text = <<>> THEN 0
    ELSE 10 * ParseNumber(SubSeq(text, 1, Len(text) - 1))
           + DigitValue(text[Len(text)])

\* str.removesuffix
RemoveSuffix(text, suffix) ==
    IF /\ Len(text) >= Len(suffix)
       /\ SubSeq(text, Len(text) - Len(suffix) + 1, Len(text)) = suffix
    THEN SubSeq(text, 1, Len(text) - Len(suffix))
    ELSE text

ASSAY_CONTROL == <<"A", "s", "s", "a", "y", " ", "C", "o", "n", "t", "r",
    "o", "l">>
MG_ML_RS == <<"m", "g", "/", "m", "L", " ", "R", "S">>
UG_RS == <<"u", "g", " ", "R", "S">>

\* parse, lines 119-126: the list a row is appended to; the mutation tests
\* for the standard curve before the assay control
GroupOfStandardCurveFirst(sample_name) ==
    IF Contains(UG_RS, sample_name) THEN "raw_standard_curve_data"
    ELSE IF Contains(ASSAY_CONTROL, sample_name) THEN "assay_control_data"
    ELSE IF Contains(MG_ML_RS, sample_name) THEN "reference_standards_data"
    ELSE "raw_sample_data"

GroupOf(sample_name) ==
    IF Contains(ASSAY_CONTROL, sample_name) THEN "assay_control_data"
    ELSE IF Contains(MG_ML_RS, sample_name) THEN "reference_standards_data"
    ELSE IF Contains(UG_RS, sample_name) THEN "raw_standard_curve_data"
    ELSE "raw_sample_data"

NoGroups ==
    [assay_control_data |-> <<>>, reference_standards_data |-> <<>>,
     raw_standard_curve_data |-> <<>>, raw_sample_data |-> <<>>]

\* parse, lines 113-126
RECURSIVE SortLoop(_, _)
SortLoop(row_maps, groups) ==
    IF row_maps = <<>> THEN groups
    ELSE LET row_map == Head(row_maps)
             group == GroupOf(row_map.SampleName)
         IN SortLoop(Tail(row_maps),
                     [groups EXCEPT ![group] = Append(@, row_map)])

\* populate_eln_raw_data_entry: one new experiment detail per row
PopulateElnRawDataEntry(raw_data) ==
    [i \in DOMAIN raw_data |->
        [SampleName |-> raw_data[i].SampleName,
         Area |-> IF raw_data[i].Area # <<>>
                  THEN FromInt(ParseNumber(raw_data[i].Area))
                  ELSE NoValue]]

\* populate_sample_raw_data_entry, lines 249-254: the rows that have a
\* sample detail with their Sample ID
MatchedRows(raw_sample_data, sample_id) ==
    SelectSeq(raw_sample_data, LAMBDA row : row.SampleName = sample_id)

\* lines 271-272: int(area_str) raises ValueError on an empty Area
SampleRawDataRaises(raw_sample_data, existing_details) ==
    \E i \in DOMAIN existing_details :
        \E j \in DOMAIN MatchedRows(raw_sample_data,
                                    existing_details[i].SampleId) :
            ~CanParse(MatchedRows(raw_sample_data,
                                  existing_details[i].SampleId)[j].Area)

\* populate_sample_raw_data_entry: the details blanked, then set from their
\* rows in file order (the last row of a sample stays)
PopulateSampleRawDataEntry(raw_sample_data, existing_details) ==
    [i \in DOMAIN existing_details |->
        LET rows == MatchedRows(raw_sample_data, existing_details[i].SampleId)
        IN [existing_details[i] EXCEPT
               !.Area = IF rows = <<>> THEN NoValue
                        ELSE FromInt(ParseNumber(rows[Len(rows)].Area))]]

\* lines 318-323: the concentration text of a standard curve record
ConcentrationText(record) == RemoveSuffix(record.SampleName, UG_RS)

Concentration(record) == ParseNumber(ConcentrationText(record))

RECURSIVE SumOver(_, _, _)
\* sum of the products of the chosen coordinates over the points
SumOver(points, a, b) ==
    IF points = <<>> THEN 0
    ELSE Head(points)[a] * Head(points)[b] + SumOver(Tail(points), a, b)

\* scipy.stats.linregress on points <<x, y, 1>> with at least two
\* different x: least squares slope and intercept, and rvalue squared
LinRegress(points) ==
    LET n == Len(points)
        sx == SumOver(points, 1, 3)
        sy == SumOver(points, 2, 3)
        sxx == SumOver(points, 1, 1)
        sxy == SumOver(points, 1, 2)
        syy == SumOver(points, 2, 2)
        ssx == n * sxx - sx * sx
        ssy == n * syy - sy * sy
        ssxy == n * sxy - sx * sy
    IN [slope |-> Rat(ssxy, ssx),
        intercept |-> Rat(sy * ssx - sx * ssxy, n * ssx),
        r_squared |-> IF ssy = 0 THEN FromInt(0)
                      ELSE Rat(ssxy * ssxy, ssx * ssy)]

\* what linregress gives when the x values are all the same: nan, or a
\* ValueError, by the version of the library
NaNRegress == [slope |-> NaN, intercept |-> NaN, r_squared |-> NaN]

Points(data) ==
    [i \in DOMAIN data |-> <<Concentration(data[i]), data[i].Area[1], 1>>]

\* populate_slope_intercept_entry raises: float() of a name that is not
\* '<n>ug RS', or linregress of no points or of a missing area
SlopeInterceptRaises(data) ==
    \/ \E i \in DOMAIN data : ~CanParse(ConcentrationText(data[i]))
    \/ data = <<>>
    \/ \E i \in DOMAIN data : data[i].Area = NoValue

AllXIdentical(data) ==
    \A i, j \in DOMAIN data : Concentration(data[i]) = Concentration(data[j])

\* populate_reference_standard_data_entry, lines 362-366
YMinusB(record, regression_data) ==
    IF record.Area # NoValue /\ regression_data.intercept # NoValue
    THEN RatSub(record.Area, regression_data.intercept)
    ELSE NoValue

\* lines 372-375
ReferenceStandardConcentration(record, regression_data) ==
    LET y_minus_b == YMinusB(record, regression_data)
        slope == regression_data.slope
    IN IF y_minus_b # NoValue /\ slope # NoValue /\ NotZero(slope)
       THEN RatDiv(y_minus_b, slope)
       ELSE NoValue

\* lines 381-382: concentration / original_conc is a TypeError when
\* concentration is None
ReferenceStandardRaises(raw_data_models, regression_data) ==
    \E i \in DOMAIN raw_data_models :
        /\ Concentration(raw_data_models[i]) # 0
        /\ ReferenceStandardConcentration(raw_data_models[i],
                                          regression_data) = NoValue

\* lines 346-383: the new row of one raw data record
ReferenceStandardDataRow(record, regression_data) ==
    LET concentration == ReferenceStandardConcentration(record,
                                                        regression_data)
        original_conc == Concentration(record)
        percent_recovery == IF original_conc # 0
                            THEN RatMul(RatDiv(concentration,
                                               FromInt(original_conc)),
                                        FromInt(100))
                            ELSE NoValue
    IN [SampleName |-> record.SampleName,
        MainPeakArea |-> record.Area,
        YMinusB |-> YMinusB(record, regression_data),
        M |-> regression_data.slope,
        Concentration |-> concentration,
        PercentRecovery |-> percent_recovery]

PopulateReferenceStandardDataEntry(raw_data_models, regression_data) ==
    [i \in DOMAIN raw_data_models |->
        ReferenceStandardDataRow(raw_data_models[i], regression_data)]

\* line 429
INJECTION_VOLUME == 10

\* populate_assay_control_data_entry raises: statistics.mean of no areas
\* or of a missing area
AssayControlRaises(raw_data_models) ==
    \/ raw_data_models = <<>>
    \/ \E i \in DOMAIN raw_data_models : raw_data_models[i].Area = NoValue

\* lines 432-443
AssayControlConcentration(record, regression) ==
    IF NotZero(regression.slope)
    THEN RatDiv(RatAbs(RatDiv(RatSub(record.Area, regression.intercept),
                              regression.slope)),
                FromInt(INJECTION_VOLUME))
    ELSE NoValue

\* abs(concentration - 0.5) / 0.5
PercentDifference(concentration) ==
    IF concentration = NoValue THEN NoValue
    ELSE RatDiv(RatAbs(RatSub(concentration, Rat(1, 2))), Rat(1, 2))

PopulateAssayControlDataEntry(raw_data_models, regression) ==
    LET areas == [i \in DOMAIN raw_data_models |-> raw_data_models[i].Area]
        concentration_values ==
            [i \in DOMAIN raw_data_models |->
                AssayControlConcentration(raw_data_models[i], regression)]
        average_concentration ==
            IF \E i \in DOMAIN concentration_values :
                   concentration_values[i] = NoValue
            THEN NoValue
            ELSE Mean(concentration_values)
    IN [i \in DOMAIN raw_data_models |->
           [SampleName |-> raw_data_models[i].SampleName,
            Area |-> raw_data_models[i].Area,
            AveragePeakArea |-> Mean(areas),
            InjectionVolume |-> INJECTION_VOLUME,
            Concentration |-> concentration_values[i],
            Difference |-> PercentDifference(concentration_values[i]),
            AverageConcentration |-> average_concentration]]

\* populate_sample_data_entry: the experiment has no diluted samples, so
\* the fields that depend on them stay empty
PopulateSampleDataEntry(raw_models, result_models, regression) ==
    [i \in DOMAIN result_models |->
        LET raw == SelectSeq(raw_models,
                             LAMBDA r : r.SampleId
                                          = result_models[i].SampleId)
        IN IF raw = <<>>
           THEN [result_models[i] EXCEPT
                    !.PeakArea = NoValue, !.Intercept = NoValue,
                    !.Slope = NoValue]
           ELSE [result_models[i] EXCEPT
                    !.PeakArea = raw[Len(raw)].Area,
                    !.Intercept = regression.intercept,
                    !.Slope = regression.slope]]

HplcRaise(exception) ==
    /\ hplcPc' = "raised"
    /\ lastResult' = Raised("EmpowerParser", exception)

\* parse, lines 101-126
HplcSortRows ==
    /\ hplcPc = "parse"
    /\ hplcGroups' = SortLoop(fileRows, NoGroups)
    /\ hplcPc' = "populate_raw_data"
    /\ lastResult' = WebhookResult("EmpowerParser", FALSE, "running")
    /\ UNCHANGED <<fileRows, rawDataEntries, rawSampleDetails,
                   slopeIntercept, referenceStandardData, assayControlData,
                   sampleData, dialogs, elisaVars,
                   nonParserVars>>

\* parse, lines 128-143
HplcPopulateRawData ==
    /\ hplcPc = "populate_raw_data"
    /\ rawDataEntries' =
          [reference_standards |->
               PopulateElnRawDataEntry(hplcGroups.reference_standards_data),
           raw_standards |->
               PopulateElnRawDataEntry(hplcGroups.raw_standard_curve_data),
           assay_controls |->
               PopulateElnRawDataEntry(hplcGroups.assay_control_data)]
    /\ IF SampleRawDataRaises(hplcGroups.raw_sample_data, rawSampleDetails)
       THEN /\ HplcRaise("ValueError")
            /\ UNCHANGED rawSampleDetails
       ELSE /\ rawSampleDetails' =
                  PopulateSampleRawDataEntry(hplcGroups.raw_sample_data,
                                             rawSampleDetails)
            /\ hplcPc' = "populate_slope_intercept"
            /\ UNCHANGED lastResult
    /\ UNCHANGED <<fileRows, hplcGroups, slopeIntercept,
                   referenceStandardData, assayControlData, sampleData,
                   dialogs, elisaVars,
                   nonParserVars>>

SetSlopeIntercept(regression) ==
    /\ slopeIntercept' = [SLOPE |-> regression.slope,
                          INTERCEPT |-> regression.intercept,
                          R2 |-> regression.r_squared,
                          SPEC |-> ">=0.99"]
    /\ hplcPc' = "populate_reference_standard_data"
    /\ UNCHANGED lastResult

\* parse, line 146: populate_slope_intercept_entry
HplcPopulateSlopeIntercept ==
    /\ hplcPc = "populate_slope_intercept"
    /\ LET data == rawDataEntries.raw_standards
       IN IF SlopeInterceptRaises(data)
          THEN /\ HplcRaise("ValueError")
               /\ UNCHANGED slopeIntercept
          ELSE IF AllXIdentical(data)
          THEN \/ /\ HplcRaise("ValueError")
                  /\ UNCHANGED slopeIntercept
               \/ SetSlopeIntercept(NaNRegress)
          ELSE SetSlopeIntercept(LinRegress(Points(data)))
    /\ UNCHANGED <<fileRows, hplcGroups, rawDataEntries, rawSampleDetails,
                   referenceStandardData, assayControlData, sampleData,
                   dialogs, elisaVars,
                   nonParserVars>>

\* the LinRegressData that populate_slope_intercept_entry returned
Regression ==
    [slope |-> slopeIntercept.SLOPE, intercept |-> slopeIntercept.INTERCEPT,
     r_squared |-> slopeIntercept.R2]

\* parse, line 147: populate_reference_standard_data_entry
HplcPopulateReferenceStandardData ==
    /\ hplcPc = "populate_reference_standard_data"
    /\ IF ReferenceStandardRaises(rawDataEntries.raw_standards, Regression)
       THEN /\ HplcRaise("TypeError")
            /\ UNCHANGED referenceStandardData
       ELSE /\ referenceStandardData' =
                  PopulateReferenceStandardDataEntry(
                      rawDataEntries.raw_standards, Regression)
            /\ hplcPc' = "populate_assay_control_data"
            /\ UNCHANGED lastResult
    /\ UNCHANGED <<fileRows, hplcGroups, rawDataEntries, rawSampleDetails,
                   slopeIntercept, assayControlData, sampleData, dialogs,
                   elisaVars,
                   nonParserVars>>

\* parse, line 148: populate_assay_control_data_entry
HplcPopulateAssayControlData ==
    /\ hplcPc = "populate_assay_control_data"
    /\ IF AssayControlRaises(rawDataEntries.assay_controls)
       THEN /\ HplcRaise("StatisticsError")
            /\ UNCHANGED assayControlData
       ELSE /\ assayControlData' =
                  PopulateAssayControlDataEntry(rawDataEntries.assay_controls,
                                                Regression)
            /\ hplcPc' = "populate_sample_data"
            /\ UNCHANGED lastResult
    /\ UNCHANGED <<fileRows, hplcGroups, rawDataEntries, rawSampleDetails,
                   slopeIntercept, referenceStandardData, sampleData,
                   dialogs, elisaVars,
                   nonParserVars>>

\* parse, lines 151-155: populate_sample_data_entry, store_and_commit
HplcPopulateSampleData ==
    /\ hplcPc = "populate_sample_data"
    /\ sampleData' = PopulateSampleDataEntry(rawSampleDetails, sampleData,
                                             Regression)
    /\ hplcPc' = "done"
    /\ lastResult' = WebhookResult("EmpowerParser", TRUE, "")
    /\ UNCHANGED <<fileRows, hplcGroups, rawDataEntries, rawSampleDetails,
                   slopeIntercept, referenceStandardData, assayControlData,
                   dialogs, elisaVars,
                   nonParserVars>>

(***************************************************************************)
(* The uploaded file: up to MaxRows rows. SampleName is one of the names a *)
(* run of the instrument exports; Area is a whole number or empty. The     *)
(* other columns hold well-formed values. The experiment has one sample,   *)
(* with a detail in "Raw Sample Data" and in "Sample Data" that hold the   *)
(* values of an earlier upload.                                             *)
(***************************************************************************)
MaxRows == 3

SAMPLE_S1 == <<"S", "1">>

SampleNames ==
    {ASSAY_CONTROL,
     <<"A", "s", "s", "a", "y", " ", "C", "o", "n", "t", "r", "o", "l", " ",
       "5", "u", "g", " ", "R", "S">>,
     <<"1", "m", "g", "/", "m", "L", " ", "R", "S">>,
     <<"0", "u", "g", " ", "R", "S">>,
     <<"5", "u", "g", " ", "R", "S">>,
     <<"5", "u", "g", " ", "R", "S", " ", "B">>,
     SAMPLE_S1}

AreaTexts == {<<>>, <<"1", "0", "0">>, <<"2", "0", "0">>}

FileRow == [SampleName : SampleNames, Area : AreaTexts]

FileRowLists == UNION {[1..n -> FileRow] : n \in 0..MaxRows}

InitHplc ==
    /\ ElisaIdle
    /\ ReviewIdle
    /\ GrabberIdle
    /\ RecordsIdle
    /\ fileRows \in FileRowLists
    /\ hplcGroups = NoGroups
    /\ rawDataEntries = [reference_standards |-> <<>>,
                         raw_standards |-> <<>>,
                         assay_controls |-> <<>>]
    /\ rawSampleDetails = <<[SampleId |-> SAMPLE_S1, Area |-> FromInt(300)]>>
    /\ slopeIntercept = [SLOPE |-> NoValue, INTERCEPT |-> NoValue,
                         R2 |-> NoValue, SPEC |-> None]
    /\ referenceStandardData = <<>>
    /\ assayControlData = <<>>
    /\ sampleData = <<[SampleId |-> SAMPLE_S1, PeakArea |-> FromInt(300),
                       Intercept |-> FromInt(0), Slope |-> FromInt(1)]>>
    /\ hplcPc = "parse"
    /\ lastResult = NoResult
    /\ dialogs = <<>>

NextHplc ==
    \/ HplcSortRows
    \/ HplcPopulateRawData
    \/ HplcPopulateSlopeIntercept
    \/ HplcPopulateReferenceStandardData
    \/ HplcPopulateAssayControlData
    \/ HplcPopulateSampleData

SpecHplc == InitHplc /\ [][NextHplc]_vars

(***************************************************************************)
(* Properties of EmpowerParser.parse (SpecHplc).                            *)
(***************************************************************************)
IsAssayControlRow(row) == Contains(ASSAY_CONTROL, row.SampleName)

IsReferenceStandardRow(row) ==
    /\ ~Contains(ASSAY_CONTROL, row.SampleName)
    /\ Contains(MG_ML_RS, row.SampleName)

IsStandardCurveRow(row) ==
    /\ ~Contains(ASSAY_CONTROL, row.SampleName)
    /\ ~Contains(MG_ML_RS, row.SampleName)
    /\ Contains(UG_RS, row.SampleName)

IsSampleRow(row) ==
    /\ ~Contains(ASSAY_CONTROL, row.SampleName)
    /\ ~Contains(MG_ML_RS, row.SampleName)
    /\ ~Contains(UG_RS, row.SampleName)

\* the rows were sorted / the raw entries were populated / the regression
\* was fitted
RowsSorted == hplcPc \notin {"idle", "parse"}

RawDataPopulated == hplcPc \notin {"idle", "parse", "populate_raw_data"}

RegressionFitted == slopeIntercept.SPEC # None

SampleNamesOf(rows) == [i \in DOMAIN rows |-> rows[i].SampleName]

\* C12: parse puts every row of the file in exactly one of four groups by
\* its SampleName, tested in this order: containing 'Assay Control' -> assay
\* controls; otherwise containing 'mg/mL RS' -> reference standards;
\* otherwise containing 'ug RS' -> standard curve; otherwise samples. Each
\* of the three raw entries holds one record per row of its own group and
\* no other, a raw sample detail takes its area from a row of the sample
\* group only, and the regression is the one fitted on the standard curve
\* rows.
C12_RowsGroupedBySampleName ==
    /\ RowsSorted =>
          /\ hplcGroups.assay_control_data
                = SelectSeq(fileRows, IsAssayControlRow)
          /\ hplcGroups.reference_standards_data
                = SelectSeq(fileRows, IsReferenceStandardRow)
          /\ hplcGroups.raw_standard_curve_data
                = SelectSeq(fileRows, IsStandardCurveRow)
          /\ hplcGroups.raw_sample_data = SelectSeq(fileRows, IsSampleRow)
          /\ Len(hplcGroups.assay_control_data)
               + Len(hplcGroups.reference_standards_data)
               + Len(hplcGroups.raw_standard_curve_data)
               + Len(hplcGroups.raw_sample_data) = Len(fileRows)
    /\ RawDataPopulated =>
          /\ SampleNamesOf(rawDataEntries.assay_controls)
                = SampleNamesOf(SelectSeq(fileRows, IsAssayControlRow))
          /\ SampleNamesOf(rawDataEntries.reference_standards)
                = SampleNamesOf(SelectSeq(fileRows, IsReferenceStandardRow))
          /\ SampleNamesOf(rawDataEntries.raw_standards)
                = SampleNamesOf(SelectSeq(fileRows, IsStandardCurveRow))
          /\ \A i \in DOMAIN rawSampleDetails :
                \/ rawSampleDetails[i].Area \in {NoValue, FromInt(300)}
                \/ \E j \in DOMAIN fileRows :
                      /\ IsSampleRow(fileRows[j])
                      /\ fileRows[j].SampleName = rawSampleDetails[i].SampleId
                      /\ CanParse(fileRows[j].Area)
                      /\ rawSampleDetails[i].Area
                            = FromInt(ParseNumber(fileRows[j].Area))
    /\ RegressionFitted =>
          LET curve == PopulateElnRawDataEntry(
                           SelectSeq(fileRows, IsStandardCurveRow))
          IN IF AllXIdentical(curve)
             THEN Regression = NaNRegress
             ELSE Regression = LinRegress(Points(curve))

\* a file with a row that holds two of the markers was parsed to the end
C12_Witness ==
    /\ hplcPc = "done"
    /\ \E i \in DOMAIN fileRows :
          /\ Contains(ASSAY_CONTROL, fileRows[i].SampleName)
          /\ Contains(UG_RS, fileRows[i].SampleName)
    /\ Len(rawDataEntries.assay_controls) = 1
    /\ Len(rawDataEntries.raw_standards) = 2
    /\ slopeIntercept.SLOPE \notin {NoValue, NaN, FromInt(0)}

\* populate_reference_standard_data_entry was called and returned or raised
ReferenceStandardStepRan ==
    /\ RegressionFitted
    /\ hplcPc # "populate_reference_standard_data"

\* C14: once the regression is fitted, the Reference Standard Data entry
\* gets one row per standard curve row '<n>ug RS' with y-b = area -
\* intercept, m = slope, concentration = (y-b) / slope and percent recovery
\* = concentration / n * 100; the concentration is left empty when the
\* slope is 0 and the percent recovery when n is 0 (or when there is no
\* concentration), and the row is written in those cases too.
C14_ReferenceStandardRowsWritten ==
    ReferenceStandardStepRan =>
        LET curve == rawDataEntries.raw_standards
            slope == slopeIntercept.SLOPE
            intercept == slopeIntercept.INTERCEPT
        IN /\ Len(referenceStandardData) = Len(curve)
           /\ \A i \in DOMAIN curve :
                 LET row == referenceStandardData[i]
                     n == ParseNumber(RemoveSuffix(curve[i].SampleName,
                                                   UG_RS))
                 IN /\ row.SampleName = curve[i].SampleName
                    /\ row.YMinusB = RatSub(curve[i].Area, intercept)
                    /\ row.M = slope
                    /\ row.Concentration =
                          IF slope = FromInt(0) THEN NoValue
                          ELSE RatDiv(row.YMinusB, slope)
                    /\ row.PercentRecovery =
                          IF n = 0 \/ row.Concentration = NoValue
                          THEN NoValue
                          ELSE RatMul(RatDiv(row.Concentration, FromInt(n)),
                                      FromInt(100))

(***************************************************************************)
(* sapio/webhook/elisa/elisa_data_parsing.py: ProcessElisaFile              *)
(* A file row is a dictionary: a function from column names to texts.       *)
(***************************************************************************)
\* elisa_blocks.py 136-145: ElisaSamplesBlockColumns
WELLS == <<"Wells", "Well">>
MEAN_RESULT == <<"MeanResult", "Mean Result">>
CV == <<"CV", "CV%", "CV% Result">>

\* what ColumnKeys.find returns: None, or the text under a key
NoCell == [present |-> FALSE, text |-> <<>>]

Cell(text) == [present |-> TRUE, text |-> text]

\* ColumnKeys.find: the value under the first valid key the row has
RECURSIVE Find(_, _)
Find(valid_keys, row_map) ==
    IF valid_keys = <<>> THEN NoCell
    ELSE IF Head(valid_keys) \in DOMAIN row_map
         THEN Cell(row_map[Head(valid_keys)])
         ELSE Find(Tail(valid_keys), row_map)

\* Python truth of a str | None
Truthy(cell) == cell.present /\ cell.text # <<>>

\* diluted_sample_sources.get(well_position) is not None
HasDilutedSample(row) ==
    /\ Find(WELLS, row).present
    /\ Find(WELLS, row).text \in DOMAIN dilutedSampleSources

DilutedSampleOf(row) == dilutedSampleSources[Find(WELLS, row).text]

\* update_sample_data, lines 123-136: the row is not skipped; the mutation
\* leaves out the look-up of the source sample
RowIsKeptWithoutSourceSample(row) ==
    /\ Truthy(Find(CV, row))
    /\ HasDilutedSample(row)

RowIsKept(row) ==
    /\ Truthy(Find(CV, row))
    /\ HasDilutedSample(row)
    /\ DilutedSampleOf(row).SampleId \in originalSampleSources

\* lines 146-149: float(i2s_str) raises ValueError
MeanResultRaises(row) ==
    /\ Truthy(Find(MEAN_RESULT, row))
    /\ ~CanParse(Find(MEAN_RESULT, row).text)

\* lines 138-157: the sample detail created for a row that is kept
SampleDataDetail(row) ==
    LET diluted_sample == DilutedSampleOf(row)
        i2s_str == Find(MEAN_RESULT, row)
    IN [SampleId |-> diluted_sample.SampleId,
        OtherSampleId |-> diluted_sample.OtherSampleId,
        I2S |-> IF Truthy(i2s_str) THEN FromInt(ParseNumber(i2s_str.text))
                ELSE NoValue,
        Dilution |-> diluted_sample.DilutionNumber,
        DilutionFactor |-> diluted_sample.DilutionFactor,
        CV |-> Find(CV, row).text]

\* update_sample_data, lines 118-161
RECURSIVE UpdateLoop(_, _)
UpdateLoop(all_rows, new_sample_data) ==
    IF all_rows = <<>> THEN new_sample_data
    ELSE UpdateLoop(Tail(all_rows),
                    IF RowIsKept(Head(all_rows))
                    THEN Append(new_sample_data,
                                SampleDataDetail(Head(all_rows)))
                    ELSE new_sample_data)

UpdateSampleDataRaises(all_rows) ==
    \E i \in DOMAIN all_rows :
        RowIsKept(all_rows[i]) /\ MeanResultRaises(all_rows[i])

\* update_sample_data_averages, lines 183-193: i2s * dilution factor of the
\* details of one sample that have both
AdjustedI2SValues(sample_data_list) ==
    LET usable == SelectSeq(sample_data_list,
                            LAMBDA detail :
                                /\ detail.I2S # NoValue
                                /\ detail.DilutionFactor # NoValue)
    IN [i \in DOMAIN usable |->
           RatMul(usable[i].I2S, usable[i].DilutionFactor)]

\* the square of stdev(values): sum of squared deviations over n - 1
Variance(values) ==
    LET mean == Mean(values)
        squares == [i \in DOMAIN values |->
                       RatMul(RatSub(values[i], mean),
                              RatSub(values[i], mean))]
    IN RatDiv(RatSum(squares), FromInt(Len(values) - 1))

\* lines 195-212: the average record of one sample; INTER_DIL_CV is kept
\* as its square, a rational number
AverageRecord(sample_id, sample_data_list) ==
    LET adjusted_i2s_values == AdjustedI2SValues(sample_data_list)
        average == IF Len(adjusted_i2s_values) # 0
                   THEN Mean(adjusted_i2s_values)
                   ELSE NoValue
    IN [SampleId |-> sample_id,
        AVG_I2S |-> average,
        INTER_DIL_CV_SQUARED |->
            IF /\ Len(adjusted_i2s_values) > 1
               /\ average # NoValue
               /\ NotZero(average)
            THEN RatDiv(RatMul(FromInt(100 * 100),
                               Variance(adjusted_i2s_values)),
                        RatMul(average, average))
            ELSE NoValue]

\* update_sample_data_averages, lines 163-212
UpdateSampleDataAverages(sample_data) ==
    LET sample_ids == {sample_data[i].SampleId : i \in DOMAIN sample_data}
                        \cap originalSampleSources
    IN [sample_id \in sample_ids |->
           AverageRecord(sample_id,
                         SelectSeq(sample_data,
                                   LAMBDA detail :
                                       detail.SampleId = sample_id))]

\* execute, line 78: update_sample_data
ElisaUpdateSampleData ==
    /\ elisaPc = "update_sample_data"
    /\ IF UpdateSampleDataRaises(allRows)
       THEN /\ elisaPc' = "raised"
            /\ lastResult' = Raised("ProcessElisaFile", "ValueError")
            /\ UNCHANGED elisaSampleData
       ELSE /\ elisaSampleData' = UpdateLoop(allRows, <<>>)
            /\ elisaPc' = "update_sample_data_averages"
            /\ lastResult' = WebhookResult("ProcessElisaFile", FALSE,
                                           "running")
    /\ UNCHANGED <<allRows, dilutedSampleSources, originalSampleSources,
                   elisaAverages, dialogs, hplcVars, nonParserVars>>

\* execute, lines 79-83: update_sample_data_averages, store_and_commit
ElisaUpdateAverages ==
    /\ elisaPc = "update_sample_data_averages"
    /\ elisaAverages' = UpdateSampleDataAverages(elisaSampleData)
    /\ elisaPc' = "done"
    /\ lastResult' = WebhookResult("ProcessElisaFile", TRUE, "Success!")
    /\ UNCHANGED <<allRows, dilutedSampleSources, originalSampleSources,
                   elisaSampleData, dialogs, hplcVars, nonParserVars>>

(***************************************************************************)
(* The uploaded file: up to MaxElisaRows rows. The plate has a diluted      *)
(* sample of sample S1 in well A1 and one of a sample that is not in the    *)
(* "Samples" entry in well A2; well B1 holds a control. The "Sample Data"   *)
(* entry may hold a detail of an earlier upload.                            *)
(***************************************************************************)
MaxElisaRows == 2

WELL_A1 == <<"A", "1">>
WELL_A2 == <<"A", "2">>
WELL_B1 == <<"B", "1">>
ELISA_SAMPLE == <<"S", "1">>
ABSENT_SAMPLE == <<"S", "9">>

DilutedSample(sample_id, dilution_number) ==
    [SampleId |-> sample_id, OtherSampleId |-> sample_id,
     DilutionNumber |-> dilution_number,
     DilutionFactor |-> FromInt(2 * dilution_number)]

PlateSources ==
    [well \in {WELL_A1, WELL_A2} |->
        IF well = WELL_A1 THEN DilutedSample(ELISA_SAMPLE, 1)
        ELSE DilutedSample(ABSENT_SAMPLE, 2)]

\* the CV columns of a row: none, one, or an empty 'CV' before a 'CV%'
CvColumns ==
    {EmptyMap,
     [k \in {"CV"} |-> <<>>],
     [k \in {"CV"} |-> <<"3", ".", "1">>],
     [k \in {"CV", "CV%"} |-> IF k = "CV" THEN <<>> ELSE <<"3", ".", "1">>]}

MeanResultTexts == {<<>>, <<"1", "2">>, <<"R", "a", "n", "g", "e", "?">>}

\* dict union of the columns of a row
Merge(a, b) ==
    [k \in (DOMAIN a) \cup (DOMAIN b) |->
        IF k \in DOMAIN a THEN a[k] ELSE b[k]]

ElisaRows ==
    {Merge(cv, [k \in {"Wells", "MeanResult"} |->
                   IF k = "Wells" THEN well ELSE mean]) :
        cv \in CvColumns, well \in {WELL_A1, WELL_A2, WELL_B1},
        mean \in MeanResultTexts}

ElisaRowLists == UNION {[1..n -> ElisaRows] : n \in 0..MaxElisaRows}

OldDetail ==
    [SampleId |-> ELISA_SAMPLE, OtherSampleId |-> ELISA_SAMPLE,
     I2S |-> FromInt(7), Dilution |-> 1, DilutionFactor |-> FromInt(2),
     CV |-> <<"9", ".", "9">>]

InitElisa ==
    /\ HplcIdle
    /\ ReviewIdle
    /\ GrabberIdle
    /\ RecordsIdle
    /\ allRows \in ElisaRowLists
    /\ dilutedSampleSources = PlateSources
    /\ originalSampleSources = {ELISA_SAMPLE}
    /\ elisaSampleData \in {<<>>, <<OldDetail>>}
    /\ elisaAverages = EmptyMap
    /\ elisaPc = "update_sample_data"
    /\ lastResult = NoResult
    /\ dialogs = <<>>

NextElisa ==
    \/ ElisaUpdateSampleData
    \/ ElisaUpdateAverages

SpecElisa == InitElisa /\ [][NextElisa]_vars

(***************************************************************************)
(* Properties of ProcessElisaFile (SpecElisa).                              *)
(***************************************************************************)
\* the row has a non-empty CV value, its well position holds a diluted
\* sample, and that diluted sample's Sample ID is one of the "Samples" entry
RowQualifies(row) ==
    /\ Find(CV, row).present
    /\ Find(CV, row).text # <<>>
    /\ \E well \in DOMAIN dilutedSampleSources :
          /\ Find(WELLS, row) = Cell(well)
          /\ dilutedSampleSources[well].SampleId \in originalSampleSources

QualifyingRows == SelectSeq(allRows, RowQualifies)

\* one detail per qualifying row, in file order, and no other detail
OneDetailPerQualifyingRow(details) ==
    /\ Len(details) = Len(QualifyingRows)
    /\ \A i \in DOMAIN details :
          /\ details[i].SampleId
                = dilutedSampleSources[Find(WELLS, QualifyingRows[i]).text]
                      .SampleId
          /\ details[i].CV = Find(CV, QualifyingRows[i]).text
          /\ details[i] # OldDetail

\* the Mean Result of the row is neither empty nor a number
MeanResultIsNotANumber(row) ==
    /\ Find(MEAN_RESULT, row).present
    /\ Find(MEAN_RESULT, row).text # <<>>
    /\ ~CanParse(Find(MEAN_RESULT, row).text)

C15_RelinksOnlyWithoutDependencies ==
    [][(/\ lastResult'.handler = "ProtocolGrabber"
        /\ Len(experimentEntries') > Len(experimentEntries)
        /\ grabberContext'.sample_step # 0)
       =>
        LET protocol == TemplateOf(grabberContext'.protocol)
            samples_entry == grabberContext'.sample_step
            first == Len(experimentEntries)
        IN \A k \in 1..Len(protocol.entries) :
              LET template_entry == protocol.entries[k]
                  entry == experimentEntries'[first + k]
                  had == IF template_entry.depends_on = 0 THEN {}
                         ELSE {first + template_entry.depends_on}
              IN /\ entry.data_type_name = template_entry.data_type_name
                 /\ (/\ template_entry.data_type_name = SAMPLE_DETAIL_TYPE
                     /\ had = {})
                       => /\ entry.dependency_set = {samples_entry}
                          /\ entry.related_entry_set = {samples_entry}
                          /\ entry.entry_status = "Disabled"
                 /\ (/\ template_entry.data_type_name = SAMPLE_DETAIL_TYPE
                     /\ had # {})
                       => /\ entry.dependency_set = had
                          /\ entry.related_entry_set = {}
                          /\ entry.entry_status = "Disabled"
                 /\ template_entry.data_type_name # SAMPLE_DETAIL_TYPE
                       => /\ entry.dependency_set = had
                          /\ entry.related_entry_set = {}
                          /\ entry.entry_status = "Enabled"
    ]_vars

\* a template whose sample detail entry depends on another of its entries
\* was added below a samples entry
C15_Witness ==
    /\ lastResult = WebhookResult("ProtocolGrabber", TRUE, "Success!")
    /\ grabberContext.stage = "built"
    /\ grabberContext.sample_step # 0
    /\ \E e \in 1..Len(experimentEntries) :
          /\ IsSampleDetail(experimentEntries[e])
          /\ experimentEntries[e].entry_status = "Disabled"
          /\ experimentEntries[e].dependency_set # {}
          /\ grabberContext.sample_step
                \notin experimentEntries[e].dependency_set

(***************************************************************************)
(* Properties of the 'Create Test Aliquots' table dialog (SpecCreator) and  *)
(* of the aliquot numbers over runs of the buttons (SpecCreatorRuns).       *)
(***************************************************************************)
\* some row has a Designation other than 'Storage' and no Assay
SomeRowLacksAssay(rows) ==
    \E i \in DOMAIN rows :
        rows[i].Designation # "Storage" /\ rows[i].Assay \in {None, ""}

\* C16: after a round of the 'Create Test Aliquots' table dialog that the
\* user did not cancel, the rows kept are the rows the user entered; if some
\* row has a Designation other than 'Storage' and no Assay, the dialog is
\* shown again with the error message and those rows, otherwise
\* prompt_user_with_aliquot_details returns them, so that in the rows it
\* returns every row has Designation 'Storage' or an Assay.
C16_DialogRepeatsUntilAssayGiven ==
    [][(creatorPc = "table_dialog" /\ creatorPc' # "raised") =>
          LET entered == dialogs'[Len(dialogs')].answer
          IN /\ resultValues' = entered
             /\ SomeRowLacksAssay(entered) =>
                   /\ creatorPc' = "table_dialog"
                   /\ errorMsg' = ASSAY_REQUIRED
             /\ ~SomeRowLacksAssay(entered) =>
                   /\ creatorPc' = "returned"
                   /\ errorMsg' = None
             /\ creatorPc' = "returned" => ~SomeRowLacksAssay(resultValues')
    ]_vars

\* the dialog is about to be shown again with the error message and with
\* rows that are not the default rows
C16_Witness ==
    /\ creatorPc = "table_dialog"
    /\ errorMsg = ASSAY_REQUIRED
    /\ resultValues # defaultValues
    /\ Len(dialogs) = 2
    /\ dialogs[2].answer = resultValues
    /\ SomeRowLacksAssay(resultValues)

\* the aliquot numbers of the sample's test aliquot children
ChildNumbers(T, sample) ==
    {T[i].AliquotNumber : i \in {j \in 1..Len(T) : T[j].Parent = sample}}

ChildCount(T, sample) == Cardinality({j \in 1..Len(T) : T[j].Parent = sample})

Largest(numbers) ==
    IF numbers = {} THEN 0
    ELSE CHOOSE m \in numbers : \A x \in numbers : x <= m

\* C17: the n rows a button proposes carry the numbers highest + 1 ..
\* highest + n, highest being the largest AliquotNumber among the sample's
\* test aliquot children, or 0 when it has none; and when the run adds its
\* test aliquots, with the proposed numbers left as they are, each new
\* number is higher than every number the sample had before the run, and
\* the test aliquots of every sample have pairwise distinct numbers.
C17_AliquotNumbersStayDistinct ==
    [][/\ (creatorPc = "idle" /\ creatorPc' = "table_dialog") =>
             LET highest == Largest(ChildNumbers(testAliquots,
                                                 creatorSample'))
             IN \A i \in DOMAIN defaultValues' :
                   defaultValues'[i].AliquotNumber = highest + i
       /\ (creatorPc = "returned" /\ creatorPc' = "done") =>
             /\ \A k \in (Len(testAliquots) + 1)..Len(testAliquots') :
                   /\ testAliquots'[k].Parent = creatorSample
                   /\ \A old \in ChildNumbers(testAliquots, creatorSample) :
                         testAliquots'[k].AliquotNumber > old
             /\ \A sample \in DOMAIN samples :
                   Cardinality(ChildNumbers(testAliquots', sample))
                      = ChildCount(testAliquots', sample)
    ]_vars

\* a sample has a test aliquot added by the toolbar button and one added by
\* the action button: two runs, one after the other
C17_Witness ==
    /\ creatorPc = "done"
    /\ \E i, j \in 1..Len(testAliquots) :
          /\ testAliquots[i].Parent = testAliquots[j].Parent
          /\ testAliquots[i].SampleType = DETAIL_SAMPLE_TYPE
          /\ testAliquots[j].EstimatedConcentration = 0
          /\ testAliquots[i].EstimatedConcentration # 0

====
